---- MODULE Spec2Model ----
(***************************************************************************)
(* Craigslist contact scraper: the contact reveal pipeline of              *)
(* scraper_link.py (validators, dedup gate, reveal sequence, write-back,   *)
(* run orchestrator) and the listing discovery of scraper_rewritten.py.    *)
(*                                                                         *)
(* Python strings are sequences of one-character strings; Python's None    *)
(* is the one-element sequence None, which no string equals.               *)
(***************************************************************************)
EXTENDS Integers, Sequences, FiniteSets, TLC

\* ------------------------------------------------------------------------
\* Bounds of the model
\* ------------------------------------------------------------------------
\* number of data rows of the sheet below the header row
MaxRows == 2
\* the elapsed-time counter saturates here (above every timeout_seconds)
MaxClock == 16
\* number of result items on a search page
MaxItems == 3
\* runs of the outreach processor over the same worksheet
MaxRuns == 2
\* digits of the phone numbers handed to the validators
MaxDigits == 11

\* li and div elements of a search page
MaxElems == 2

\* ------------------------------------------------------------------------
\* Strings
\* ------------------------------------------------------------------------
None == <<"None">>

LowerChars == {"a","b","c","d","e","f","g","h","i","j","k","l","m",
               "n","o","p","q","r","s","t","u","v","w","x","y","z"}
UpperChars == {"A","B","C","D","E","F","G","H","I","J","K","L","M",
               "N","O","P","Q","R","S","T","U","V","W","X","Y","Z"}
DigitChars == {"0","1","2","3","4","5","6","7","8","9"}
SpaceChars == {" ", "\n", "\t"}

\* bool(s) of Python for a string or None
Truthy(s) == s # None /\ s # <<>>

\* str.lower()
LowerOf(c) ==
    CASE c = "A" -> "a" [] c = "B" -> "b" [] c = "C" -> "c" [] c = "D" -> "d"
      [] c = "E" -> "e" [] c = "F" -> "f" [] c = "G" -> "g" [] c = "H" -> "h"
      [] c = "I" -> "i" [] c = "J" -> "j" [] c = "K" -> "k" [] c = "L" -> "l"
      [] c = "M" -> "m" [] c = "N" -> "n" [] c = "O" -> "o" [] c = "P" -> "p"
      [] c = "Q" -> "q" [] c = "R" -> "r" [] c = "S" -> "s" [] c = "T" -> "t"
      [] c = "U" -> "u" [] c = "V" -> "v" [] c = "W" -> "w" [] c = "X" -> "x"
      [] c = "Y" -> "y" [] c = "Z" -> "z" [] OTHER -> c

Lower(s) == [i \in 1..Len(s) |-> LowerOf(s[i])]

\* the in operator of Python on strings: sub occurs in s
Contains(s, sub) ==
    \E i \in 0..(Len(s) - Len(sub)) :
        \A k \in 1..Len(sub) : s[i + k] = sub[k]

\* str.strip()
RECURSIVE LStrip(_)
LStrip(s) == IF s # <<>> /\ Head(s) \in SpaceChars THEN LStrip(Tail(s)) ELSE s

RECURSIVE RStrip(_)
RStrip(s) ==
    IF s # <<>> /\ s[Len(s)] \in SpaceChars
    THEN RStrip(SubSeq(s, 1, Len(s) - 1)) ELSE s

Strip(s) == RStrip(LStrip(s))

\* re.sub(r'\D', '', s)
DigitsOnly(s) == SelectSeq(s, LAMBDA c : c \in DigitChars)

AllIn(s, lo, hi, chars) == \A k \in lo..hi : s[k] \in chars

\* ------------------------------------------------------------------------
\* Validation functions (scraper_link.py, section 2)
\* ------------------------------------------------------------------------
LocalChars == LowerChars \cup UpperChars \cup DigitChars \cup {".", "_", "%", "+", "-"}
DomainChars == LowerChars \cup UpperChars \cup DigitChars \cup {".", "-"}
\* the class [A-Z|a-z] of the pattern holds the bar as well
TldChars == LowerChars \cup UpperChars \cup {"|"}

\* the whole of s has the shape local@domain.tld
EmailShape(s) ==
    \E i \in 2..Len(s) :
        /\ s[i] = "@"
        /\ AllIn(s, 1, i - 1, LocalChars)
        /\ \E j \in (i + 2)..(Len(s) - 2) :
              /\ s[j] = "."
              /\ AllIn(s, i + 1, j - 1, DomainChars)
              /\ AllIn(s, j + 1, Len(s), TldChars)

\* re.match(email_pattern, s): the pattern is anchored at both ends, and $
\* also matches just before one trailing newline
EmailPatternMatches(s) ==
    \/ EmailShape(s)
    \/ /\ s # <<>>
       /\ s[Len(s)] = "\n"
       /\ EmailShape(SubSeq(s, 1, Len(s) - 1))

invalid_domains ==
    << <<"n", "o", "r", "e", "p", "l", "y">>,
       <<"n", "o", "-", "r", "e", "p", "l", "y">>,
       <<"d", "o", "n", "o", "t", "r", "e", "p", "l", "y">>,
       <<"e", "x", "a", "m", "p", "l", "e", ".", "c", "o", "m">>,
       <<"t", "e", "s", "t", ".", "c", "o", "m">> >>

validate_email(email) ==
    IF ~Truthy(email) THEN FALSE
    ELSE IF ~EmailPatternMatches(email) THEN FALSE
    ELSE IF \E d \in 1..Len(invalid_domains) :
                Contains(Lower(email), invalid_domains[d]) THEN FALSE
    ELSE TRUE

\* variant: any 11 digits are accepted
validate_phone_AnyEleven(phone) ==
    IF ~Truthy(phone) THEN FALSE
    ELSE LET digits_only == DigitsOnly(phone) IN
         IF Len(digits_only) \notin {10, 11} THEN FALSE
         ELSE TRUE

validate_phone(phone) ==
    IF ~Truthy(phone) THEN FALSE
    ELSE LET digits_only == DigitsOnly(phone) IN
         IF Len(digits_only) \notin {10, 11} THEN FALSE
         ELSE IF Len(digits_only) = 11 /\ digits_only[1] # "1" THEN FALSE
         ELSE TRUE

\* variant: the leading 1 of 11 digits is kept
format_phone_KeepsCountryCode(phone) ==
    IF ~Truthy(phone) THEN None
    ELSE LET digits == DigitsOnly(phone)
         IN IF Len(digits) = 10
            THEN <<"(">> \o SubSeq(digits, 1, 3) \o <<")", " ">>
                 \o SubSeq(digits, 4, 6) \o <<"-">> \o SubSeq(digits, 7, 10)
            ELSE phone

\* variant: the ten digits are joined with dashes
format_phone_Dashed(phone) ==
    IF ~Truthy(phone) THEN None
    ELSE LET all == DigitsOnly(phone)
             digits == IF Len(all) = 11 /\ all[1] = "1" THEN Tail(all) ELSE all
         IN IF Len(digits) = 10
            THEN SubSeq(digits, 1, 3) \o <<"-">>
                 \o SubSeq(digits, 4, 6) \o <<"-">> \o SubSeq(digits, 7, 10)
            ELSE phone

format_phone(phone) ==
    IF ~Truthy(phone) THEN None
    ELSE LET all == DigitsOnly(phone)
             digits == IF Len(all) = 11 /\ all[1] = "1" THEN Tail(all) ELSE all
         IN IF Len(digits) = 10
            THEN <<"(">> \o SubSeq(digits, 1, 3) \o <<")", " ">>
                 \o SubSeq(digits, 4, 6) \o <<"-">> \o SubSeq(digits, 7, 10)
            ELSE phone

\* ------------------------------------------------------------------------
\* String values used as inputs
\* ------------------------------------------------------------------------
\* "No email found"
NoEmailFound == <<"N", "o", " ", "e", "m", "a", "i", "l", " ", "f", "o", "u", "n", "d">>

\* "No phone found"
NoPhoneFound == <<"N", "o", " ", "p", "h", "o", "n", "e", " ", "f", "o", "u", "n", "d">>

\* "jobs@acme.com"
JobsAtAcme == <<"j", "o", "b", "s", "@", "a", "c", "m", "e", ".", "c", "o", "m">>

\* "a@noreply.com"
NoReplyAddr == <<"a", "@", "n", "o", "r", "e", "p", "l", "y", ".", "c", "o", "m">>

\* "555-123-4567"
PhoneDashed == <<"5", "5", "5", "-", "1", "2", "3", "-", "4", "5", "6", "7">>

\* "5551234567"
PhoneDigits == <<"5", "5", "5", "1", "2", "3", "4", "5", "6", "7">>

\* "12345"
PhoneShort == <<"1", "2", "3", "4", "5">>

\* "retail - NY"
WebsiteText == <<"r", "e", "t", "a", "i", "l", " ", "-", " ", "N", "Y">>

\* today.strftime("%m/%d") and the same of another day
TodayStr == <<"1", "1", "/", "0", "4">>

OtherStr == <<"1", "1", "/", "0", "3">>

\* clipboard read that raises
ClipRaises == <<"Raises">>

Min(a, b) == IF a < b THEN a ELSE b

\* ------------------------------------------------------------------------
\* State
\* ------------------------------------------------------------------------
VARIABLES
    sheet,         \* worksheet: sheet row -> [date (C), url (K), email (L), phone (M)]
    cfg,           \* arguments of run_outreach_processor
    pc,            \* position of the run
    clock,         \* time.time() - start_time, in seconds
    todays_links,  \* (row_num, url, date_added) of the listings to process
    idx,           \* enumerate(todays_links, 1)
    results,       \* records returned by process_url
    cur,           \* locals of the process_url call in flight
    browser,       \* "none", "open", "closed"
    retval,        \* return value of run_outreach_processor
    timed_out,     \* the loop was left through the timeout break
    calls,         \* history of the calls made: [op, row]
    items,         \* result items of the search page, in document order
    post_data,     \* tuples returned by the item extraction
    today_postings,\* postings kept by the today-filter of run_scraper
    dpc,           \* position of run_scraper
    run,           \* number of the run of the outreach processor
    partial,       \* rows an earlier run wrote with an email and no phone
    reopened,      \* rows of partial whose dedup read raised in a later run
    before,        \* the worksheet as the run before left it
    fn,            \* the function of section 2 or 3 that is called on its own
    arg,           \* its argument
    stage,         \* 0: not called, 1: called on arg, 2: called again on out
    out,           \* its return value
    fn2,           \* the function called on out
    out2,          \* the return value of that call
    proxy,         \* PROXY_ENABLED, PROXY_SERVER, PROXY_USERNAME, PROXY_PASSWORD
    other,         \* a second process of the script that is not running now
    scrape         \* locals of the posting loop of run_scraper

vars == <<sheet, cfg, pc, clock, todays_links, idx, results, cur, browser,
          retval, timed_out, calls, items, post_data, today_postings, dpc,
          run, partial, reopened, before, fn, arg, stage, out, fn2, out2, proxy,
          other, scrape>>

runVars == <<run, partial, reopened, before>>

callVars == <<fn, arg, stage, out, fn2, out2>>

envVars == <<proxy, other, scrape>>

pipelineVars == <<sheet, cfg, pc, clock, todays_links, idx, results, cur,
                  browser, retval, timed_out, calls>>

discoveryVars == <<items, post_data, today_postings, dpc>>

\* ------------------------------------------------------------------------
\* The row store
\* ------------------------------------------------------------------------
\* "Date", "Link", "Email", "Phone": the header cells of the date column,
\* the link column and the two output columns
HeaderRow == [date |-> <<"D", "a", "t", "e">>,
              url |-> <<"L", "i", "n", "k">>,
              email |-> <<"E", "m", "a", "i", "l">>,
              phone |-> <<"P", "h", "o", "n", "e">>]

SheetRows == 2..(MaxRows + 1)

\* the outreach link of sheet row r
UrlOf(r) == <<"/", ToString(r), ".", "h", "t", "m", "l">>

\* the output cells a data row holds before a run: never written, or the
\* email and the no-phone marker an earlier run of the contact pipeline left
InitialOutputCells ==
    { [email |-> None, phone |-> None],
      [email |-> JobsAtAcme, phone |-> NoPhoneFound] }

\* the data rows before a run: rows of today with any output cells, rows of
\* another day with empty output cells
InitialRows ==
    { [date |-> d, cells |-> c] : d \in {TodayStr, OtherStr},
                                  c \in InitialOutputCells }
    \ { [date |-> OtherStr, cells |-> c] :
            c \in InitialOutputCells \ {[email |-> None, phone |-> None]} }

InitialSheets ==
    { [r \in 1..(MaxRows + 1) |->
          IF r = 1 THEN HeaderRow
          ELSE [date |-> f[r].date, url |-> UrlOf(r),
                email |-> f[r].cells.email, phone |-> f[r].cells.phone]] :
        f \in [SheetRows -> InitialRows] }

\* worksheet.col_values(col): the cells of a column from row 1 down to the
\* last non-empty one, an empty cell read as ''
RECURSIVE TrimTrailingEmpty(_)
TrimTrailingEmpty(col) ==
    IF col # <<>> /\ ~Truthy(col[Len(col)])
    THEN TrimTrailingEmpty(SubSeq(col, 1, Len(col) - 1))
    ELSE col

DateColumn(ws) ==
    TrimTrailingEmpty([r \in 1..Len(ws) |->
                          IF ws[r].date = None THEN <<>> ELSE ws[r].date])

UrlColumn(ws) ==
    TrimTrailingEmpty([r \in 1..Len(ws) |->
                          IF ws[r].url = None THEN <<>> ELSE ws[r].url])

\* variant: an empty date cell is passed over
RECURSIVE ScanLinks_SkipsEmpty(_, _, _)
ScanLinks_SkipsEmpty(date_column, url_column, row_num) ==
    IF row_num >= Len(date_column) THEN <<>>
    ELSE LET date_value == Strip(date_column[row_num + 1])
             rest == ScanLinks_SkipsEmpty(date_column, url_column, row_num + 1)
         IN IF /\ date_value = TodayStr
               /\ row_num < Len(url_column)
               /\ Truthy(url_column[row_num + 1])
            THEN <<[row |-> row_num + 1,
                    url |-> Strip(url_column[row_num + 1]),
                    date |-> date_value]>> \o rest
            ELSE rest

\* the loop of get_todays_outreach_links from list index row_num on (list
\* index row_num is sequence index row_num + 1 and sheet row row_num + 1)
RECURSIVE ScanLinks(_, _, _)
ScanLinks(date_column, url_column, row_num) ==
    IF row_num >= Len(date_column) THEN <<>>
    ELSE IF ~Truthy(date_column[row_num + 1]) THEN <<>>
    ELSE LET date_value == Strip(date_column[row_num + 1])
             rest == ScanLinks(date_column, url_column, row_num + 1)
         IN IF /\ date_value = TodayStr
               /\ row_num < Len(url_column)
               /\ Truthy(url_column[row_num + 1])
            THEN <<[row |-> row_num + 1,
                    url |-> Strip(url_column[row_num + 1]),
                    date |-> date_value]>> \o rest
            ELSE rest

get_todays_outreach_links(ws, raises) ==
    IF raises THEN <<>>
    ELSE ScanLinks(DateColumn(ws), UrlColumn(ws), 1)

\* ------------------------------------------------------------------------
\* Dedup and upsert gate
\* ------------------------------------------------------------------------
\* variant: the check reads the phone-output cell
check_if_contact_exists_PhoneCell(ws, row_number, raises) ==
    IF raises THEN FALSE
    ELSE LET cell_value == ws[row_number].phone IN
         IF Truthy(cell_value) /\ Truthy(Strip(cell_value))
         THEN IF Contains(cell_value, <<"@">>) THEN TRUE ELSE FALSE
         ELSE FALSE

\* variant: an '@' in any cell of the row counts
check_if_contact_exists_AnyCell(ws, row_number, raises) ==
    IF raises THEN FALSE
    ELSE \E cell_value \in {ws[row_number].email, ws[row_number].phone,
                             ws[row_number].url} :
            /\ Truthy(cell_value)
            /\ Truthy(Strip(cell_value))
            /\ Contains(cell_value, <<"@">>)

\* variant: a read that raises counts as a row already done
check_if_contact_exists_RaiseIsDone(ws, row_number, raises) ==
    IF raises THEN TRUE
    ELSE LET cell_value == ws[row_number].email IN
         IF Truthy(cell_value) /\ Truthy(Strip(cell_value))
         THEN IF Contains(cell_value, <<"@">>) THEN TRUE ELSE FALSE
         ELSE FALSE

\* variant: any non-empty email cell counts, the marker included
check_if_contact_exists_AnyValue(ws, row_number, raises) ==
    IF raises THEN FALSE
    ELSE LET cell_value == ws[row_number].email IN
         Truthy(cell_value) /\ Truthy(Strip(cell_value))

\* lines 256-271
check_if_contact_exists(ws, row_number, raises) ==
    IF raises THEN FALSE
    ELSE LET cell_value == ws[row_number].email IN
         IF Truthy(cell_value) /\ Truthy(Strip(cell_value))
         THEN IF Contains(cell_value, <<"@">>) THEN TRUE ELSE FALSE
         ELSE FALSE

\* the outcomes of the two update_cell calls of one write-back
WriteOutcomes == {"ok", "email_write_raises", "phone_write_raises"}

\* variant: the phone cell is written only when an email was written
update_contact_in_sheet_PhoneAfterEmail(ws, row_number, email, phone, outcome) ==
    LET email_ok == Truthy(email) /\ validate_email(email)
        phone_ok == Truthy(phone) /\ validate_phone(phone)
        email_cell == IF email_ok THEN email ELSE NoEmailFound
        phone_cell == IF phone_ok THEN format_phone(phone) ELSE NoPhoneFound
    IN CASE outcome = "email_write_raises" ->
                [ws |-> ws, success |-> FALSE]
         [] outcome = "phone_write_raises" \/ ~email_ok ->
                [ws |-> [ws EXCEPT ![row_number].email = email_cell],
                 success |-> FALSE]
         [] OTHER ->
                [ws |-> [ws EXCEPT ![row_number].email = email_cell,
                                   ![row_number].phone = phone_cell],
                 success |-> email_ok \/ phone_ok]

\* variant: an update_cell call that raises has changed its cell all the same
update_contact_in_sheet_FailedWriteLands(ws, row_number, email, phone, outcome) ==
    LET email_ok == Truthy(email) /\ validate_email(email)
        phone_ok == Truthy(phone) /\ validate_phone(phone)
        email_cell == IF email_ok THEN email ELSE NoEmailFound
        phone_cell == IF phone_ok THEN format_phone(phone) ELSE NoPhoneFound
    IN CASE outcome = "email_write_raises" ->
                [ws |-> [ws EXCEPT ![row_number].email = email_cell],
                 success |-> FALSE]
         [] outcome = "phone_write_raises" ->
                [ws |-> [ws EXCEPT ![row_number].email = email_cell,
                                   ![row_number].phone = phone_cell],
                 success |-> FALSE]
         [] OTHER ->
                [ws |-> [ws EXCEPT ![row_number].email = email_cell,
                                   ![row_number].phone = phone_cell],
                 success |-> email_ok \/ phone_ok]

\* variant: the cells are addressed by the index into the column lists
\* (row_num) and not by the sheet row (row_num + 1)
update_contact_in_sheet_ListIndex(ws, row_number, email, phone, outcome) ==
    LET email_ok == Truthy(email) /\ validate_email(email)
        phone_ok == Truthy(phone) /\ validate_phone(phone)
        email_cell == IF email_ok THEN email ELSE NoEmailFound
        phone_cell == IF phone_ok THEN format_phone(phone) ELSE NoPhoneFound
    IN CASE outcome = "email_write_raises" ->
                [ws |-> ws, success |-> FALSE]
         [] outcome = "phone_write_raises" ->
                [ws |-> [ws EXCEPT ![row_number - 1].email = email_cell],
                 success |-> FALSE]
         [] OTHER ->
                [ws |-> [ws EXCEPT ![row_number - 1].email = email_cell,
                                   ![row_number - 1].phone = phone_cell],
                 success |-> email_ok \/ phone_ok]

\* variant: the phone is written as it was extracted
update_contact_in_sheet_RawPhone(ws, row_number, email, phone, outcome) ==
    LET email_ok == Truthy(email) /\ validate_email(email)
        phone_ok == Truthy(phone) /\ validate_phone(phone)
        email_cell == IF email_ok THEN email ELSE NoEmailFound
        phone_cell == IF phone_ok THEN phone ELSE NoPhoneFound
    IN CASE outcome = "email_write_raises" ->
                [ws |-> ws, success |-> FALSE]
         [] outcome = "phone_write_raises" ->
                [ws |-> [ws EXCEPT ![row_number].email = email_cell],
                 success |-> FALSE]
         [] OTHER ->
                [ws |-> [ws EXCEPT ![row_number].email = email_cell,
                                   ![row_number].phone = phone_cell],
                 success |-> email_ok \/ phone_ok]

\* update_contact_in_sheet: the worksheet afterwards and the value returned
update_contact_in_sheet(ws, row_number, email, phone, outcome) ==
    LET email_ok == Truthy(email) /\ validate_email(email)
        phone_ok == Truthy(phone) /\ validate_phone(phone)
        email_cell == IF email_ok THEN email ELSE NoEmailFound
        phone_cell == IF phone_ok THEN format_phone(phone) ELSE NoPhoneFound
    IN CASE outcome = "email_write_raises" ->
                [ws |-> ws, success |-> FALSE]
         [] outcome = "phone_write_raises" ->
                [ws |-> [ws EXCEPT ![row_number].email = email_cell],
                 success |-> FALSE]
         [] OTHER ->
                [ws |-> [ws EXCEPT ![row_number].email = email_cell,
                                   ![row_number].phone = phone_cell],
                 success |-> email_ok \/ phone_ok]

\* ------------------------------------------------------------------------
\* Contact extraction (the reveal sequence)
\* ------------------------------------------------------------------------
\* What the page does once a channel button is chosen:
\*   click: the click on the option button ("ok", "raises")
\*   copy:  the copy button ("present", "absent", "raises" for a query or a
\*          click on it that raises)
\*   clip:  navigator.clipboard.readText() (a string, or ClipRaises)
\*   html:  re.findall of the channel's pattern over page.content(), for the
\*          phone pattern with the three groups of a match joined
EmailEnvs ==
    { [click |-> "raises", copy |-> "present", clip |-> JobsAtAcme, html |-> <<>>],
      [click |-> "ok", copy |-> "absent", clip |-> JobsAtAcme, html |-> <<JobsAtAcme>>],
      [click |-> "ok", copy |-> "raises", clip |-> JobsAtAcme, html |-> <<JobsAtAcme>>],
      [click |-> "ok", copy |-> "present", clip |-> JobsAtAcme, html |-> <<>>],
      [click |-> "ok", copy |-> "present", clip |-> ClipRaises,
       html |-> <<NoReplyAddr, JobsAtAcme>>],
      [click |-> "ok", copy |-> "present", clip |-> NoReplyAddr,
       html |-> <<NoReplyAddr>>],
      [click |-> "ok", copy |-> "present", clip |-> <<>>, html |-> <<>>] }

PhoneEnvs ==
    { [click |-> "raises", copy |-> "present", clip |-> PhoneDashed, html |-> <<>>],
      [click |-> "ok", copy |-> "absent", clip |-> PhoneDashed, html |-> <<PhoneDigits>>],
      [click |-> "ok", copy |-> "present", clip |-> PhoneDashed, html |-> <<>>],
      [click |-> "ok", copy |-> "present", clip |-> ClipRaises, html |-> <<PhoneDigits>>],
      [click |-> "ok", copy |-> "present", clip |-> PhoneShort, html |-> <<>>] }

Channels == {"email", "call", "text"}

\* variant: the markup scan takes the first match without validating it
extract_from_clipboard_FirstMatch(env, contact_type) ==
    IF env.click = "raises" THEN None
    ELSE IF env.copy = "raises" THEN None
    ELSE IF env.copy = "absent" THEN None
    ELSE LET readable == env.clip # ClipRaises
             contact_info == IF readable THEN Strip(env.clip) ELSE None
             from_clipboard ==
                 /\ readable
                 /\ Truthy(env.clip)
                 /\ Truthy(Strip(env.clip))
                 /\ IF contact_type = "email" THEN validate_email(contact_info)
                    ELSE validate_phone(contact_info)
         IN IF from_clipboard THEN contact_info
            ELSE IF env.html # <<>>
            THEN IF contact_type = "email" THEN env.html[1]
                 ELSE format_phone(env.html[1])
            ELSE None

\* extract_from_clipboard(page, option_button, contact_type): the value
\* returned, None when nothing valid was found or anything raised
extract_from_clipboard(env, contact_type) ==
    IF env.click = "raises" THEN None
    ELSE IF env.copy = "raises" THEN None
    ELSE IF env.copy = "absent" THEN None
    ELSE LET readable == env.clip # ClipRaises
             contact_info == IF readable THEN Strip(env.clip) ELSE None
             from_clipboard ==
                 /\ readable
                 /\ Truthy(env.clip)
                 /\ Truthy(Strip(env.clip))
                 /\ IF contact_type = "email" THEN validate_email(contact_info)
                    ELSE validate_phone(contact_info)
         IN IF from_clipboard THEN contact_info
            ELSE IF contact_type = "email"
            THEN LET valid_emails == SelectSeq(env.html, validate_email)
                 IN IF valid_emails # <<>> THEN valid_emails[1] ELSE None
            ELSE IF env.html # <<>>
                 THEN LET phone == format_phone(env.html[1])
                      IN IF validate_phone(phone) THEN phone ELSE None
                 ELSE None

\* the outcomes of the reply button step (lines 413-429): the button is
\* found and clicked, it is absent, the query raises, the click raises
ReplyOutcomes == {"present", "absent", "query_raises", "click_raises"}

\* the outcomes of the contact-options query (lines 431-449): it raises, or
\* it finds the buttons of a set of channels
OptionsOutcomes == {"ok", "raises"}

\* ------------------------------------------------------------------------
\* Time
\* ------------------------------------------------------------------------
\* seconds a blocking step can take (inputs of the environment)
SetupDurations == {0, 6}

\* seconds the launch of the browser takes (lines 623-678)
LaunchDurations == {0, 6}

NavDurations == {1}

ExtractDurations == {1, 8}

\* time.sleep(2) between two listings
PacingDelay == 2

\* time.sleep(5) before the browser is closed
CloseDelay == 5

Advance(c, d) == Min(c + d, MaxClock)

\* ------------------------------------------------------------------------
\* Arguments of run_outreach_processor
\* ------------------------------------------------------------------------
\* timeout_seconds: a budget a run can use up, and one that is used up when
\* the run starts
TimeoutChoices == {-1, 5}

MaxLinksChoices == {1}

Configs == [test_mode : BOOLEAN, max_links : MaxLinksChoices,
            timeout_seconds : TimeoutChoices]

\* ------------------------------------------------------------------------
\* Proxy configuration (the environment read at lines 25-29)
\* ------------------------------------------------------------------------
\* the settings the process can be started with; a setting that is not in
\* the environment is None, one that is has the value "p"
ProxyEnvs == [enabled : BOOLEAN, server : {None, <<"p">>},
              username : {None, <<"p">>}, password : {None, <<"p">>}]

\* PROXY_ENABLED defaults to false and the other settings to None
NoProxy == [enabled |-> FALSE, server |-> None, username |-> None,
            password |-> None]

\* all([PROXY_SERVER, PROXY_USERNAME, PROXY_PASSWORD])
ProxyComplete(p) ==
    Truthy(p.server) /\ Truthy(p.username) /\ Truthy(p.password)

\* time.sleep(3) after the proxy verification
ProxyDelay == 3

\* ------------------------------------------------------------------------
\* process_url, step by step (every step is a blocking call)
\* ------------------------------------------------------------------------
\* no channel button has been chosen yet
NoEnv == [click |-> "none", copy |-> "none", clip |-> None, html |-> <<>>]

NoCur == [row_number |-> 0, url |-> <<>>, status |-> "none", email |-> None,
          phone |-> None, sheet_updated |-> FALSE, contact_info |-> "None",
          has |-> {}, activated |-> <<>>, reply_clicked |-> FALSE,
          dedup_read |-> "none", reply |-> "none", started |-> 0,
          email_env |-> NoEnv, write |-> "none", options |-> "none"]

Call(op, row) == [op |-> op, row |-> row]

\* the record process_url returns; sheet_updated of a skipped record stands
\* for the missing key; contact_info, has, activated, reply_clicked,
\* reply, options, started and write are history of the call, dedup_read
\* of the dedup check until the navigation, email_env of the extraction in
\* flight
Returned(status, email, phone, sheet_updated) ==
    [cur EXCEPT !.status = status, !.email = email, !.phone = phone,
                !.sheet_updated = sheet_updated, !.email_env = NoEnv]

\* variant: a row counts as done only when a phone was found as well
PU_Dedup_RetriesPartial ==
    /\ pc = "pu_dedup"
    /\ \E raises \in BOOLEAN :
          LET read == IF raises THEN "raises" ELSE "ok" IN
          /\ IF /\ check_if_contact_exists(sheet, cur.row_number, raises)
                /\ sheet[cur.row_number].phone # NoPhoneFound
             THEN /\ cur' = [Returned("skipped", None, None, FALSE)
                                EXCEPT !.dedup_read = read]
                  /\ pc' = "pu_return"
             ELSE /\ cur' = [cur EXCEPT !.dedup_read = read]
                  /\ pc' = "pu_goto"
          /\ reopened' = IF raises /\ cur.row_number \in partial
                         THEN reopened \cup {cur.row_number}
                         ELSE reopened
    /\ calls' = Append(calls, Call("check_if_contact_exists", cur.row_number))
    /\ UNCHANGED <<sheet, cfg, clock, todays_links, idx, results, browser,
                   retval, timed_out>>
    /\ UNCHANGED discoveryVars
    /\ UNCHANGED <<run, partial, before>>
    /\ UNCHANGED callVars
    /\ UNCHANGED envVars

\* lines 492-501: the dedup check
PU_Dedup ==
    /\ pc = "pu_dedup"
    /\ \E raises \in BOOLEAN :
          LET read == IF raises THEN "raises" ELSE "ok" IN
          /\ IF check_if_contact_exists(sheet, cur.row_number, raises)
             THEN /\ cur' = [Returned("skipped", None, None, FALSE)
                                EXCEPT !.dedup_read = read]
                  /\ pc' = "pu_return"
             ELSE /\ cur' = [cur EXCEPT !.dedup_read = read]
                  /\ pc' = "pu_goto"
          /\ reopened' = IF raises /\ cur.row_number \in partial
                         THEN reopened \cup {cur.row_number}
                         ELSE reopened
    /\ calls' = Append(calls, Call("check_if_contact_exists", cur.row_number))
    /\ UNCHANGED <<sheet, cfg, clock, todays_links, idx, results, browser,
                   retval, timed_out>>
    /\ UNCHANGED discoveryVars
    /\ UNCHANGED <<run, partial, before>>
    /\ UNCHANGED callVars
    /\ UNCHANGED envVars

\* lines 505-518, page.goto succeeds
PU_GotoOk ==
    /\ pc = "pu_goto"
    /\ \E d \in NavDurations : clock' = Advance(clock, d)
    /\ cur' = [cur EXCEPT !.dedup_read = "none"]
    /\ pc' = "pu_reply"
    /\ calls' = Append(calls, Call("goto", cur.row_number))
    /\ UNCHANGED <<sheet, cfg, todays_links, idx, results, browser,
                   retval, timed_out>>
    /\ UNCHANGED discoveryVars
    /\ UNCHANGED runVars
    /\ UNCHANGED callVars
    /\ UNCHANGED envVars

\* variant: a failed navigation writes the not-found markers to the sheet
PU_GotoRaises_WritesBack ==
    /\ pc = "pu_goto"
    /\ \E d \in NavDurations : clock' = Advance(clock, d)
    /\ sheet' = update_contact_in_sheet(sheet, cur.row_number, None, None,
                                        "ok").ws
    /\ cur' = Returned("error", None, None, FALSE)
    /\ pc' = "pu_return"
    /\ calls' = calls \o <<Call("goto", cur.row_number),
                            Call("update_contact_in_sheet", cur.row_number)>>
    /\ UNCHANGED <<cfg, todays_links, idx, results, browser,
                   retval, timed_out>>
    /\ UNCHANGED discoveryVars
    /\ UNCHANGED runVars
    /\ UNCHANGED callVars
    /\ UNCHANGED envVars

\* variant: the exception of page.goto leaves process_url and reaches the
\* handler of lines 708-712
PU_GotoRaises_Propagates ==
    /\ pc = "pu_goto"
    /\ \E d \in NavDurations : clock' = Advance(clock, d)
    /\ pc' = "summary"
    /\ calls' = Append(calls, Call("goto", cur.row_number))
    /\ UNCHANGED <<sheet, cfg, todays_links, idx, results, cur, browser,
                   retval, timed_out>>
    /\ UNCHANGED discoveryVars
    /\ UNCHANGED runVars
    /\ UNCHANGED callVars
    /\ UNCHANGED envVars

\* lines 505-518, page.goto (or page.title) raises: the error record
PU_GotoRaises ==
    /\ pc = "pu_goto"
    /\ \E d \in NavDurations : clock' = Advance(clock, d)
    /\ cur' = [Returned("error", None, None, FALSE)
                  EXCEPT !.dedup_read = "none"]
    /\ pc' = "pu_return"
    /\ calls' = Append(calls, Call("goto", cur.row_number))
    /\ UNCHANGED <<sheet, cfg, todays_links, idx, results, browser,
                   retval, timed_out>>
    /\ UNCHANGED discoveryVars
    /\ UNCHANGED runVars
    /\ UNCHANGED callVars
    /\ UNCHANGED envVars

\* variant: the budget is checked again after the wait for the reply button
\* and the listing is abandoned when it is exhausted
PU_Reply_ChecksBudget ==
    /\ pc = "pu_reply"
    /\ \E d \in ExtractDurations : clock' = Advance(clock, d)
    /\ \E reply \in ReplyOutcomes :
          IF clock' > cfg.timeout_seconds
          THEN /\ cur' = cur
               /\ pc' = "close"
          ELSE IF reply = "present"
          THEN /\ cur' = [cur EXCEPT !.reply_clicked = TRUE, !.reply = reply]
               /\ pc' = "pu_options"
          ELSE /\ cur' = [cur EXCEPT !.contact_info = "None", !.reply = reply]
               /\ pc' = "pu_write"
    /\ calls' = Append(calls, Call("extract_contact_info_from_page",
                                   cur.row_number))
    /\ UNCHANGED <<sheet, cfg, todays_links, idx, results, browser,
                   retval, timed_out>>
    /\ UNCHANGED discoveryVars
    /\ UNCHANGED runVars
    /\ UNCHANGED callVars
    /\ UNCHANGED envVars

\* variant: a missing reply button makes process_url return an error record
PU_Reply_AbsentIsError ==
    /\ pc = "pu_reply"
    /\ \E d \in ExtractDurations : clock' = Advance(clock, d)
    /\ \E reply \in ReplyOutcomes :
          IF reply = "present"
          THEN /\ cur' = [cur EXCEPT !.reply_clicked = TRUE, !.reply = reply]
               /\ pc' = "pu_options"
          ELSE IF reply = "absent"
          THEN /\ cur' = [Returned("error", None, None, FALSE)
                             EXCEPT !.contact_info = "None", !.reply = reply]
               /\ pc' = "pu_return"
          ELSE /\ cur' = [cur EXCEPT !.contact_info = "None", !.reply = reply]
               /\ pc' = "pu_write"
    /\ calls' = Append(calls, Call("extract_contact_info_from_page",
                                   cur.row_number))
    /\ UNCHANGED <<sheet, cfg, todays_links, idx, results, browser,
                   retval, timed_out>>
    /\ UNCHANGED discoveryVars
    /\ UNCHANGED runVars
    /\ UNCHANGED callVars
    /\ UNCHANGED envVars

\* extract_contact_info_from_page, step 1 (lines 413-429): the reply
\* button; without it the function returns None
PU_Reply ==
    /\ pc = "pu_reply"
    /\ \E d \in ExtractDurations : clock' = Advance(clock, d)
    /\ \E reply \in ReplyOutcomes :
          IF reply = "present"
          THEN /\ cur' = [cur EXCEPT !.reply_clicked = TRUE, !.reply = reply]
               /\ pc' = "pu_options"
          ELSE /\ cur' = [cur EXCEPT !.contact_info = "None", !.reply = reply]
               /\ pc' = "pu_write"
    /\ calls' = Append(calls, Call("extract_contact_info_from_page",
                                   cur.row_number))
    /\ UNCHANGED <<sheet, cfg, todays_links, idx, results, browser,
                   retval, timed_out>>
    /\ UNCHANGED discoveryVars
    /\ UNCHANGED runVars
    /\ UNCHANGED callVars
    /\ UNCHANGED envVars

\* variant: a listing without a channel button is an error
PU_Options_NoneIsError ==
    /\ pc = "pu_options"
    /\ \E outcome \in OptionsOutcomes, has \in SUBSET Channels :
          IF outcome = "raises"
          THEN /\ cur' = [cur EXCEPT !.contact_info = "None",
                                     !.options = "raises"]
               /\ pc' = "pu_write"
          ELSE IF has = {}
          THEN /\ cur' = [Returned("error", None, None, FALSE)
                             EXCEPT !.contact_info = "None",
                                    !.options = "empty"]
               /\ pc' = "pu_return"
          ELSE /\ cur' = [cur EXCEPT !.contact_info = "dict", !.has = has,
                                     !.options = "found"]
               /\ pc' = "pu_email"
    /\ UNCHANGED <<sheet, cfg, clock, todays_links, idx, results, browser,
                   retval, timed_out, calls>>
    /\ UNCHANGED discoveryVars
    /\ UNCHANGED runVars
    /\ UNCHANGED callVars
    /\ UNCHANGED envVars

\* step 2 (lines 431-449): the channel buttons; None when the query raises
\* or finds no button
PU_Options ==
    /\ pc = "pu_options"
    /\ \E outcome \in OptionsOutcomes, has \in SUBSET Channels :
          IF outcome = "raises"
          THEN /\ cur' = [cur EXCEPT !.contact_info = "None",
                                     !.options = "raises"]
               /\ pc' = "pu_write"
          ELSE IF has = {}
          THEN /\ cur' = [cur EXCEPT !.contact_info = "None",
                                     !.options = "empty"]
               /\ pc' = "pu_write"
          ELSE /\ cur' = [cur EXCEPT !.contact_info = "dict", !.has = has,
                                     !.options = "found"]
               /\ pc' = "pu_email"
    /\ UNCHANGED <<sheet, cfg, clock, todays_links, idx, results, browser,
                   retval, timed_out, calls>>
    /\ UNCHANGED discoveryVars
    /\ UNCHANGED runVars
    /\ UNCHANGED callVars
    /\ UNCHANGED envVars

\* variant: a clipboard read that raises ends the email extraction
PU_Email_NoFallback ==
    /\ pc = "pu_email"
    /\ IF "email" \in cur.has
       THEN \E env \in EmailEnvs :
               cur' = [cur EXCEPT
                          !.email = IF env.clip = ClipRaises THEN None
                                    ELSE extract_from_clipboard(env, "email"),
                          !.activated = Append(@, "email"),
                          !.email_env = env]
       ELSE cur' = cur
    /\ pc' = "pu_phone"
    /\ UNCHANGED <<sheet, cfg, clock, todays_links, idx, results, browser,
                   retval, timed_out, calls>>
    /\ UNCHANGED discoveryVars
    /\ UNCHANGED runVars
    /\ UNCHANGED callVars
    /\ UNCHANGED envVars

\* step 3 (lines 451-457): the email channel
PU_Email ==
    /\ pc = "pu_email"
    /\ IF "email" \in cur.has
       THEN \E env \in EmailEnvs :
               cur' = [cur EXCEPT
                          !.email = extract_from_clipboard(env, "email"),
                          !.activated = Append(@, "email"),
                          !.email_env = env]
       ELSE cur' = cur
    /\ pc' = "pu_phone"
    /\ UNCHANGED <<sheet, cfg, clock, todays_links, idx, results, browser,
                   retval, timed_out, calls>>
    /\ UNCHANGED discoveryVars
    /\ UNCHANGED runVars
    /\ UNCHANGED callVars
    /\ UNCHANGED envVars

\* variant: the text channel is tried when the call channel gave nothing
PU_Phone_FallsBackToText ==
    /\ pc = "pu_phone"
    /\ IF "call" \in cur.has
       THEN \E env \in PhoneEnvs, env2 \in PhoneEnvs :
               LET called == extract_from_clipboard(env, "call") IN
               IF called = None /\ "text" \in cur.has
               THEN cur' = [cur EXCEPT
                               !.phone = extract_from_clipboard(env2, "text"),
                               !.activated = @ \o <<"call", "text">>]
               ELSE cur' = [cur EXCEPT !.phone = called,
                                       !.activated = Append(@, "call")]
       ELSE IF "text" \in cur.has
       THEN \E env \in PhoneEnvs :
               cur' = [cur EXCEPT
                          !.phone = extract_from_clipboard(env, "text"),
                          !.activated = Append(@, "text")]
       ELSE cur' = cur
    /\ pc' = "pu_write"
    /\ UNCHANGED <<sheet, cfg, clock, todays_links, idx, results, browser,
                   retval, timed_out, calls>>
    /\ UNCHANGED discoveryVars
    /\ UNCHANGED runVars
    /\ UNCHANGED callVars
    /\ UNCHANGED envVars

\* step 4 (lines 459-471): the phone channel, call before text
PU_Phone ==
    /\ pc = "pu_phone"
    /\ IF "call" \in cur.has
       THEN \E env \in PhoneEnvs :
               cur' = [cur EXCEPT
                          !.phone = extract_from_clipboard(env, "call"),
                          !.activated = Append(@, "call")]
       ELSE IF "text" \in cur.has
       THEN \E env \in PhoneEnvs :
               cur' = [cur EXCEPT
                          !.phone = extract_from_clipboard(env, "text"),
                          !.activated = Append(@, "text")]
       ELSE cur' = cur
    /\ pc' = "pu_write"
    /\ UNCHANGED <<sheet, cfg, clock, todays_links, idx, results, browser,
                   retval, timed_out, calls>>
    /\ UNCHANGED discoveryVars
    /\ UNCHANGED runVars
    /\ UNCHANGED callVars
    /\ UNCHANGED envVars

\* variant: only an email counts as a contact
StatusOf_EmailOnly(email, phone) ==
    IF Truthy(email) THEN "success" ELSE "no_contact"

\* variant: a phone without an email is reported with a status of its own
StatusOf_PartialStatus(email, phone) ==
    IF Truthy(email) THEN "success"
    ELSE IF Truthy(phone) THEN "partial" ELSE "no_contact"

\* status of lines 526-531
StatusOf(email, phone) ==
    IF Truthy(email) \/ Truthy(phone) THEN "success" ELSE "no_contact"

\* lines 521-540: the two .get calls, the write-back and the record returned
PU_Write ==
    /\ pc = "pu_write"
    /\ \E outcome \in WriteOutcomes :
          LET email == IF cur.contact_info # "None" THEN cur.email ELSE None
              phone == IF cur.contact_info # "None" THEN cur.phone ELSE None
              upd == update_contact_in_sheet(sheet, cur.row_number,
                                             email, phone, outcome)
          IN /\ sheet' = upd.ws
             /\ cur' = [Returned(StatusOf(email, phone), email, phone,
                                 upd.success)
                           EXCEPT !.write = outcome]
    /\ pc' = "pu_return"
    /\ calls' = Append(calls, Call("update_contact_in_sheet", cur.row_number))
    /\ UNCHANGED <<cfg, clock, todays_links, idx, results, browser,
                   retval, timed_out>>
    /\ UNCHANGED discoveryVars
    /\ UNCHANGED runVars
    /\ UNCHANGED callVars
    /\ UNCHANGED envVars

\* ------------------------------------------------------------------------
\* run_outreach_processor
\* ------------------------------------------------------------------------
\* the locals of the process of the script that is running
Context ==
    [cfg |-> cfg, pc |-> pc, clock |-> clock, todays_links |-> todays_links,
     idx |-> idx, results |-> results, cur |-> cur, browser |-> browser,
     retval |-> retval, timed_out |-> timed_out]

\* run_scraper before its posting loop: i of enumerate(today_postings, 1),
\* entries_added, skipped_count, len(failed_urls); reads_ok and base are
\* history: no read of check_duplicate_posting has raised so far, and the
\* number of rows of the worksheet before the first run
NoScrape == [i |-> 0, entries_added |-> 0, skipped_count |-> 0, failed |-> 0,
             reads_ok |-> TRUE, base |-> 0]

\* there is no second process
NoOther ==
    [cfg |-> [test_mode |-> TRUE, max_links |-> 1, timeout_seconds |-> 5],
     pc |-> "none", clock |-> 0, todays_links |-> <<>>, idx |-> 0,
     results |-> <<>>, cur |-> NoCur, browser |-> "none", retval |-> "none",
     timed_out |-> FALSE]
\* variant: the completeness of the settings is checked whatever
\* PROXY_ENABLED is
LoadConfig_IgnoresFlag ==
    /\ pc = "import"
    /\ pc' = IF ~ProxyComplete(proxy) THEN "config_error" ELSE "setup"
    /\ UNCHANGED <<sheet, cfg, clock, todays_links, idx, results, cur,
                   browser, retval, timed_out, calls>>
    /\ UNCHANGED discoveryVars
    /\ UNCHANGED runVars
    /\ UNCHANGED callVars
    /\ UNCHANGED envVars

\* lines 25-37: the module is loaded; with the proxy enabled and a setting
\* missing ValueError is raised and nothing of the script runs
LoadConfig ==
    /\ pc = "import"
    /\ pc' = IF proxy.enabled /\ ~ProxyComplete(proxy)
             THEN "config_error"
             ELSE "setup"
    /\ UNCHANGED <<sheet, cfg, clock, todays_links, idx, results, cur,
                   browser, retval, timed_out, calls>>
    /\ UNCHANGED discoveryVars
    /\ UNCHANGED runVars
    /\ UNCHANGED callVars
    /\ UNCHANGED envVars

\* lines 575-593: setup_google_sheets raises
SetupFails ==
    /\ pc = "setup"
    /\ retval' = "False"
    /\ pc' = "done"
    /\ calls' = Append(calls, Call("setup_google_sheets", 0))
    /\ UNCHANGED <<sheet, cfg, clock, todays_links, idx, results, cur,
                   browser, timed_out>>
    /\ UNCHANGED discoveryVars
    /\ UNCHANGED runVars
    /\ UNCHANGED callVars
    /\ UNCHANGED envVars

\* variant: the listings are fetched without a look at the budget
Setup_NoBudgetCheck ==
    /\ pc = "setup"
    /\ \E d \in SetupDurations : clock' = Advance(clock, d)
    /\ retval' = retval
    /\ pc' = "fetch"
    /\ calls' = Append(calls, Call("setup_google_sheets", 0))
    /\ UNCHANGED <<sheet, cfg, todays_links, idx, results, cur, browser,
                   timed_out>>
    /\ UNCHANGED discoveryVars
    /\ UNCHANGED runVars
    /\ UNCHANGED callVars
    /\ UNCHANGED envVars

\* lines 575-593: the store is connected, then the first budget check
Setup ==
    /\ pc = "setup"
    /\ \E d \in SetupDurations :
          /\ clock' = Advance(clock, d)
          /\ IF clock' > cfg.timeout_seconds
             THEN /\ retval' = "True"
                  /\ pc' = "done"
             ELSE /\ retval' = retval
                  /\ pc' = "fetch"
    /\ calls' = Append(calls, Call("setup_google_sheets", 0))
    /\ UNCHANGED <<sheet, cfg, todays_links, idx, results, cur, browser,
                   timed_out>>
    /\ UNCHANGED discoveryVars
    /\ UNCHANGED runVars
    /\ UNCHANGED callVars
    /\ UNCHANGED envVars

\* todays_links[:max_links]
Take(seq, n) == SubSeq(seq, 1, Min(n, Len(seq)))

\* variant: the list is capped whatever test_mode is
FetchLinks_AlwaysCaps ==
    /\ pc = "fetch"
    /\ \E raises \in BOOLEAN :
          LET links == get_todays_outreach_links(sheet, raises) IN
          IF links = <<>>
          THEN /\ todays_links' = links
               /\ retval' = "False"
               /\ pc' = "done"
          ELSE /\ todays_links' = Take(links, cfg.max_links)
               /\ retval' = retval
               /\ pc' = "launch"
    /\ calls' = Append(calls, Call("get_todays_outreach_links", 0))
    /\ UNCHANGED <<sheet, cfg, clock, idx, results, cur, browser, timed_out>>
    /\ UNCHANGED discoveryVars
    /\ UNCHANGED runVars
    /\ UNCHANGED callVars
    /\ UNCHANGED envVars

\* lines 600-614: the listings of today, capped in test mode
FetchLinks ==
    /\ pc = "fetch"
    /\ \E raises \in BOOLEAN :
          LET links == get_todays_outreach_links(sheet, raises) IN
          IF links = <<>>
          THEN /\ todays_links' = links
               /\ retval' = "False"
               /\ pc' = "done"
          ELSE /\ todays_links' = IF cfg.test_mode
                                  THEN Take(links, cfg.max_links)
                                  ELSE links
               /\ retval' = retval
               /\ pc' = "launch"
    /\ calls' = Append(calls, Call("get_todays_outreach_links", 0))
    /\ UNCHANGED <<sheet, cfg, clock, idx, results, cur, browser, timed_out>>
    /\ UNCHANGED discoveryVars
    /\ UNCHANGED runVars
    /\ UNCHANGED callVars
    /\ UNCHANGED envVars

\* the history of the proxy verification of lines 653-674: the call of
\* test_proxy_connection, which returns a record whatever happens (lines
\* 110-165), and the warning printed when the record says no success
ProxyVerification(verified) ==
    IF verified
    THEN <<Call("test_proxy_connection", 0)>>
    ELSE <<Call("test_proxy_connection", 0), Call("proxy_warning", 0)>>

\* variant: a verification without success ends the browser block
Launch_AbortsUnverified ==
    /\ pc = "launch"
    /\ \E d \in LaunchDurations, verified \in BOOLEAN :
          /\ clock' = Advance(clock,
                              IF proxy.enabled THEN d + ProxyDelay ELSE d)
          /\ calls' = IF proxy.enabled
                      THEN Append(calls, Call("launch", 0))
                           \o ProxyVerification(verified)
                      ELSE Append(calls, Call("launch", 0))
          /\ pc' = IF proxy.enabled /\ ~verified THEN "summary" ELSE "loop"
    /\ browser' = "open"
    /\ idx' = 1
    /\ UNCHANGED <<sheet, cfg, todays_links, results, cur, retval,
                   timed_out>>
    /\ UNCHANGED discoveryVars
    /\ UNCHANGED runVars
    /\ UNCHANGED callVars
    /\ UNCHANGED envVars

\* lines 623-678: the browser is launched and the page created; with the
\* proxy enabled the connection is verified and the run sleeps, whatever the
\* verification gave
Launch ==
    /\ pc = "launch"
    /\ \E d \in LaunchDurations, verified \in BOOLEAN :
          /\ clock' = Advance(clock,
                              IF proxy.enabled THEN d + ProxyDelay ELSE d)
          /\ calls' = IF proxy.enabled
                      THEN Append(calls, Call("launch", 0))
                           \o ProxyVerification(verified)
                      ELSE Append(calls, Call("launch", 0))
    /\ browser' = "open"
    /\ idx' = 1
    /\ pc' = "loop"
    /\ UNCHANGED <<sheet, cfg, todays_links, results, cur, retval,
                   timed_out>>
    /\ UNCHANGED discoveryVars
    /\ UNCHANGED runVars
    /\ UNCHANGED callVars
    /\ UNCHANGED envVars

\* lines 646-650 raise: chromium.launch (no browser) or new_page (browser
\* open); the handler of lines 708-712 takes over
LaunchRaises ==
    /\ pc = "launch"
    /\ \E opened \in BOOLEAN : browser' = IF opened THEN "open" ELSE "none"
    /\ pc' = "summary"
    /\ calls' = Append(calls, Call("launch", 0))
    /\ UNCHANGED <<sheet, cfg, clock, todays_links, idx, results, cur,
                   retval, timed_out>>
    /\ UNCHANGED discoveryVars
    /\ UNCHANGED runVars
    /\ UNCHANGED callVars
    /\ UNCHANGED envVars

\* line 680: the list is exhausted
LoopExhausted ==
    /\ pc = "loop"
    /\ idx > Len(todays_links)
    /\ pc' = "close"
    /\ UNCHANGED <<sheet, cfg, clock, todays_links, idx, results, cur,
                   browser, retval, timed_out, calls>>
    /\ UNCHANGED discoveryVars
    /\ UNCHANGED runVars
    /\ UNCHANGED callVars
    /\ UNCHANGED envVars

\* lines 683-690: the budget is exhausted at the check before listing idx
LoopTimeout ==
    /\ pc = "loop"
    /\ idx <= Len(todays_links)
    /\ clock > cfg.timeout_seconds
    /\ timed_out' = TRUE
    /\ pc' = "close"
    /\ UNCHANGED <<sheet, cfg, clock, todays_links, idx, results, cur,
                   browser, retval, calls>>
    /\ UNCHANGED discoveryVars
    /\ UNCHANGED runVars
    /\ UNCHANGED callVars
    /\ UNCHANGED envVars

\* variant: the call is made without looking at the budget
LoopCall_NoBudgetCheck ==
    /\ pc = "loop"
    /\ idx <= Len(todays_links)
    /\ cur' = [NoCur EXCEPT !.row_number = todays_links[idx].row,
                            !.url = todays_links[idx].url,
                            !.started = clock]
    /\ pc' = "pu_dedup"
    /\ calls' = Append(calls, Call("process_url", todays_links[idx].row))
    /\ UNCHANGED <<sheet, cfg, clock, todays_links, idx, results, browser,
                   retval, timed_out>>
    /\ UNCHANGED discoveryVars
    /\ UNCHANGED runVars
    /\ UNCHANGED callVars
    /\ UNCHANGED envVars

\* variant: the listings are taken from the end of the list
LoopCall_Reversed ==
    /\ pc = "loop"
    /\ idx <= Len(todays_links)
    /\ ~(clock > cfg.timeout_seconds)
    /\ LET link == todays_links[Len(todays_links) - idx + 1] IN
          /\ cur' = [NoCur EXCEPT !.row_number = link.row,
                                  !.url = link.url,
                                  !.started = clock]
          /\ calls' = Append(calls, Call("process_url", link.row))
    /\ pc' = "pu_dedup"
    /\ UNCHANGED <<sheet, cfg, clock, todays_links, idx, results, browser,
                   retval, timed_out>>
    /\ UNCHANGED discoveryVars
    /\ UNCHANGED runVars
    /\ UNCHANGED callVars
    /\ UNCHANGED envVars

\* line 692: process_url is called for listing idx
LoopCall ==
    /\ pc = "loop"
    /\ idx <= Len(todays_links)
    /\ ~(clock > cfg.timeout_seconds)
    /\ cur' = [NoCur EXCEPT !.row_number = todays_links[idx].row,
                            !.url = todays_links[idx].url,
                            !.started = clock]
    /\ pc' = "pu_dedup"
    /\ calls' = Append(calls, Call("process_url", todays_links[idx].row))
    /\ UNCHANGED <<sheet, cfg, clock, todays_links, idx, results, browser,
                   retval, timed_out>>
    /\ UNCHANGED discoveryVars
    /\ UNCHANGED runVars
    /\ UNCHANGED callVars
    /\ UNCHANGED envVars

\* the record of cur as kept in results; finished is history
ResultOf(c, now) ==
    [row_number |-> c.row_number, url |-> c.url, status |-> c.status,
     email |-> c.email, phone |-> c.phone, sheet_updated |-> c.sheet_updated,
     started |-> c.started, finished |-> now]

\* variant: the loop stays on the listing it has just processed
LoopAppend_StaysOnListing ==
    /\ pc = "pu_return"
    /\ results' = Append(results, ResultOf(cur, clock))
    /\ clock' = Advance(clock, PacingDelay)
    /\ calls' = Append(calls, Call("sleep", cur.row_number))
    /\ idx' = idx
    /\ cur' = NoCur
    /\ pc' = "loop"
    /\ UNCHANGED <<sheet, cfg, todays_links, browser, retval, timed_out>>
    /\ UNCHANGED discoveryVars
    /\ UNCHANGED runVars
    /\ UNCHANGED callVars
    /\ UNCHANGED envVars

\* variant: no pacing delay after a listing that was skipped
LoopAppend_NoPaceAfterSkip ==
    /\ pc = "pu_return"
    /\ results' = Append(results, ResultOf(cur, clock))
    /\ IF idx < Len(todays_links) /\ cur.status # "skipped"
       THEN /\ clock' = Advance(clock, PacingDelay)
            /\ calls' = Append(calls, Call("sleep", cur.row_number))
       ELSE /\ clock' = clock
            /\ calls' = calls
    /\ idx' = idx + 1
    /\ cur' = NoCur
    /\ pc' = "loop"
    /\ UNCHANGED <<sheet, cfg, todays_links, browser, retval, timed_out>>
    /\ UNCHANGED discoveryVars
    /\ UNCHANGED runVars
    /\ UNCHANGED callVars
    /\ UNCHANGED envVars

\* lines 693-697: the record is appended, then the pacing delay
LoopAppend ==
    /\ pc = "pu_return"
    /\ results' = Append(results, ResultOf(cur, clock))
    /\ IF idx < Len(todays_links)
       THEN /\ clock' = Advance(clock, PacingDelay)
            /\ calls' = Append(calls, Call("sleep", cur.row_number))
       ELSE /\ clock' = clock
            /\ calls' = calls
    /\ idx' = idx + 1
    /\ cur' = NoCur
    /\ pc' = "loop"
    /\ UNCHANGED <<sheet, cfg, todays_links, browser, retval, timed_out>>
    /\ UNCHANGED discoveryVars
    /\ UNCHANGED runVars
    /\ UNCHANGED callVars
    /\ UNCHANGED envVars

\* lines 699-706: the browser is closed
Close ==
    /\ pc = "close"
    /\ clock' = Advance(clock, CloseDelay)
    /\ browser' = "closed"
    /\ pc' = "summary"
    /\ calls' = Append(calls, Call("close", 0))
    /\ UNCHANGED <<sheet, cfg, todays_links, idx, results, cur, retval,
                   timed_out>>
    /\ UNCHANGED discoveryVars
    /\ UNCHANGED runVars
    /\ UNCHANGED callVars
    /\ UNCHANGED envVars

\* lines 714-756: the summary is printed and the run returns True
Summary ==
    /\ pc = "summary"
    /\ retval' = "True"
    /\ pc' = "done"
    /\ UNCHANGED <<sheet, cfg, clock, todays_links, idx, results, cur,
                   browser, timed_out, calls>>
    /\ UNCHANGED discoveryVars
    /\ UNCHANGED runVars
    /\ UNCHANGED callVars
    /\ UNCHANGED envVars

\* lines 720-725: a count of the summary
StatusCount(rs, status) ==
    Cardinality({i \in 1..Len(rs) : rs[i].status = status})

\* the first run over the worksheet
InitFirstRun ==
    /\ run = 1
    /\ partial = {}
    /\ reopened = {}
    /\ before = <<>>

\* no function is called on its own
InitCallIdle ==
    /\ fn = "none"
    /\ arg = None
    /\ stage = 0
    /\ out = None
    /\ fn2 = "none"
    /\ out2 = None

InitDiscoveryIdle ==
    /\ items = <<>>
    /\ post_data = <<>>
    /\ today_postings = <<>>
    /\ dpc = "idle"

Init ==
    /\ sheet \in InitialSheets
    /\ cfg \in Configs
    /\ pc = "setup"
    /\ clock = 0
    /\ todays_links = <<>>
    /\ idx = 0
    /\ results = <<>>
    /\ cur = NoCur
    /\ browser = "none"
    /\ retval = "none"
    /\ timed_out = FALSE
    /\ calls = <<>>
    /\ proxy = NoProxy
    /\ other = NoOther
    /\ scrape = NoScrape
    /\ InitDiscoveryIdle
    /\ InitFirstRun
    /\ InitCallIdle

Next ==
    \/ SetupFails
    \/ Setup
    \/ FetchLinks
    \/ Launch
    \/ LaunchRaises
    \/ LoopExhausted
    \/ LoopTimeout
    \/ LoopCall
    \/ PU_Dedup
    \/ PU_GotoOk
    \/ PU_GotoRaises
    \/ PU_Reply
    \/ PU_Options
    \/ PU_Email
    \/ PU_Phone
    \/ PU_Write
    \/ LoopAppend
    \/ Close
    \/ Summary

Spec == Init /\ [][Next]_vars

\* ------------------------------------------------------------------------
\* Reruns: the script is started again over the worksheet the runs before
\* it left
\* ------------------------------------------------------------------------
\* rows the run that ends wrote with an email found and no phone found
PartialOf(rs) ==
    { rs[i].row_number : i \in { k \in 1..Len(rs) :
          /\ rs[k].status = "success"
          /\ Truthy(rs[k].email)
          /\ ~Truthy(rs[k].phone)
          /\ rs[k].sheet_updated
          /\ sheet[rs[k].row_number].phone = NoPhoneFound } }

\* main() is run again with the same arguments
Rerun ==
    /\ pc = "done"
    /\ run < MaxRuns
    /\ run' = run + 1
    /\ partial' = partial \cup PartialOf(results)
    /\ before' = sheet
    /\ pc' = "setup"
    /\ clock' = 0
    /\ todays_links' = <<>>
    /\ idx' = 0
    /\ results' = <<>>
    /\ cur' = NoCur
    /\ browser' = "none"
    /\ retval' = "none"
    /\ timed_out' = FALSE
    /\ calls' = <<>>
    /\ UNCHANGED <<sheet, cfg, reopened>>
    /\ UNCHANGED discoveryVars
    /\ UNCHANGED callVars
    /\ UNCHANGED envVars

NextRerun ==
    \/ Next
    \/ Rerun

\* the reruns are followed in test mode, each run taking the first
\* max_links listings of today
InitRerun ==
    /\ Init
    /\ cfg.test_mode

SpecRerun == InitRerun /\ [][NextRerun]_vars

\* ------------------------------------------------------------------------
\* Two processes of the script over the same worksheet
\* ------------------------------------------------------------------------
\* the scheduler takes the running process off and puts the other one on:
\* the locals of the two processes change places, the worksheet is shared.
\* The switch is followed right after the dedup check of the running
\* process and after its return: between the dedup check and the write-back
\* a process touches its own page only, so a switch anywhere between them
\* leaves the same worksheet as a switch right after the dedup check.
\* calls is the history of both processes, with the switches in it.
Switch ==
    /\ pc \in {"pu_goto", "done"}
    /\ other.pc \notin {"none", "done"}
    /\ calls = <<>> \/ calls[Len(calls)].op # "switch"
    /\ other' = Context
    /\ cfg' = other.cfg
    /\ pc' = other.pc
    /\ clock' = other.clock
    /\ todays_links' = other.todays_links
    /\ idx' = other.idx
    /\ results' = other.results
    /\ cur' = other.cur
    /\ browser' = other.browser
    /\ retval' = other.retval
    /\ timed_out' = other.timed_out
    /\ calls' = Append(calls, Call("switch", 0))
    /\ UNCHANGED <<sheet, proxy, scrape>>
    /\ UNCHANGED discoveryVars
    /\ UNCHANGED runVars
    /\ UNCHANGED callVars

\* the worksheet the listing scraper left: every row of today, no output yet
FreshSheet ==
    [r \in 1..(MaxRows + 1) |->
        IF r = 1 THEN HeaderRow
        ELSE [date |-> TodayStr, url |-> UrlOf(r), email |-> None,
              phone |-> None]]

\* main() is started twice in test mode
InitConcurrent ==
    /\ sheet = FreshSheet
    /\ cfg \in Configs
    /\ cfg.test_mode
    /\ pc = "setup"
    /\ clock = 0
    /\ todays_links = <<>>
    /\ idx = 0
    /\ results = <<>>
    /\ cur = NoCur
    /\ browser = "none"
    /\ retval = "none"
    /\ timed_out = FALSE
    /\ calls = <<>>
    /\ proxy = NoProxy
    /\ other = Context
    /\ scrape = NoScrape
    /\ InitDiscoveryIdle
    /\ InitFirstRun
    /\ InitCallIdle

NextConcurrent ==
    \/ Next
    \/ Switch

SpecConcurrent == InitConcurrent /\ [][NextConcurrent]_vars

\* ------------------------------------------------------------------------
\* Startup: the script is started with any proxy settings in its environment
\* ------------------------------------------------------------------------
\* main() in test mode, before the module is loaded
InitStartup ==
    /\ sheet \in InitialSheets
    /\ cfg \in Configs
    /\ cfg.test_mode
    /\ pc = "import"
    /\ clock = 0
    /\ todays_links = <<>>
    /\ idx = 0
    /\ results = <<>>
    /\ cur = NoCur
    /\ browser = "none"
    /\ retval = "none"
    /\ timed_out = FALSE
    /\ calls = <<>>
    /\ proxy \in ProxyEnvs
    /\ other = NoOther
    /\ scrape = NoScrape
    /\ InitDiscoveryIdle
    /\ InitFirstRun
    /\ InitCallIdle

NextStartup ==
    \/ LoadConfig
    \/ Next

SpecStartup == InitStartup /\ [][NextStartup]_vars

\* ------------------------------------------------------------------------
\* Listing discovery (scraper_rewritten.py)
\* ------------------------------------------------------------------------
\* "Nov 04 2026 10:00 GMT-0800": title attribute of a date element of today
TitleToday == <<"N", "o", "v", " ", "0", "4", " ", "2", "0", "2", "6", " ", "1", "0", ":", "0", "0", " ", "G", "M", "T", "-", "0", "8", "0", "0">>

\* "Nov 03 2026 10:00 GMT-0800": the same of the day before
TitleYesterday == <<"N", "o", "v", " ", "0", "3", " ", "2", "0", "2", "6", " ", "1", "0", ":", "0", "0", " ", "G", "M", "T", "-", "0", "8", "0", "0">>

\* "Today", "11/4", "11/3", "new": visible texts of a date element
TextToday == <<"T", "o", "d", "a", "y">>

TextDateToday == <<"1", "1", "/", "4">>

TextDateYesterday == <<"1", "1", "/", "3">>

TextGarbage == <<"n", "e", "w">>

\* " GMT"
GmtMark == <<" ", "G", "M", "T">>

\* "today", str(today.year)
TodayWord == <<"t", "o", "d", "a", "y">>

YearStr == <<"2", "0", "2", "6">>

\* datetime.date.today() and the day before, as [y, m, d]
Today == [y |-> 2026, m |-> 11, d |-> 4]

Yesterday == [y |-> 2026, m |-> 11, d |-> 3]

NoDate == [y |-> 0, m |-> 0, d |-> 0]

\* s.split(sub)[0]
RECURSIVE BeforeFirst(_, _)
BeforeFirst(s, sub) ==
    IF Len(s) < Len(sub) THEN s
    ELSE IF SubSeq(s, 1, Len(sub)) = sub THEN <<>>
    ELSE <<Head(s)>> \o BeforeFirst(Tail(s), sub)

\* dateutil's parser.parse(text).date() on the date texts of the model;
\* NoDate stands for the exception raised on anything else
ParseDate(text) ==
    CASE text = BeforeFirst(TitleToday, GmtMark) -> Today
      [] text = BeforeFirst(TitleYesterday, GmtMark) -> Yesterday
      [] text = TextDateToday -> Today
      [] text = TextDateYesterday -> Yesterday
      [] OTHER -> NoDate

\* date elements of a result item: title attribute and visible text
DateSpans ==
    { [title |-> TitleToday, text |-> TextDateToday],
      [title |-> TitleYesterday, text |-> TextDateYesterday],
      [title |-> <<>>, text |-> TextToday],
      [title |-> <<>>, text |-> TextDateYesterday],
      [title |-> <<>>, text |-> TextGarbage] }

\* result item without a date element
NoSpan == [title |-> None, text |-> None]

\* the anchor of a result item: an href with .html, an href without it, an
\* href of the exclusion list, or no anchor at all
ItemKinds == [link : {"html", "plain", "excluded", "none"},
              span : DateSpans \cup {NoSpan}]

\* parse_craigslist_date(date_span): (is_today, parsed_date)
parse_craigslist_date(date_span) ==
    IF ~Truthy(date_span.title)
    THEN IF Lower(Strip(date_span.text)) = TodayWord
         THEN [is_today |-> TRUE, parsed_date |-> Today]
         ELSE LET parsed_date == ParseDate(Strip(date_span.text)) IN
              IF parsed_date = NoDate
              THEN [is_today |-> FALSE, parsed_date |-> NoDate]
              ELSE [is_today |-> parsed_date = Today,
                    parsed_date |-> parsed_date]
    ELSE LET parsed_date == ParseDate(BeforeFirst(date_span.title, GmtMark)) IN
         IF parsed_date = NoDate
         THEN [is_today |-> FALSE, parsed_date |-> NoDate]
         ELSE [is_today |-> parsed_date = Today, parsed_date |-> parsed_date]

\* lines 246-293: the tuples of the result items from index i on; item is the
\* position of the result item the tuple comes from
RECURSIVE HtmlTuples(_, _)
HtmlTuples(its, i) ==
    IF i > Len(its) THEN <<>>
    ELSE LET it == its[i]
             rest == HtmlTuples(its, i + 1)
         IN IF it.link \in {"none", "excluded"} THEN rest
            ELSE IF it.span # NoSpan
            THEN LET p == parse_craigslist_date(it.span) IN
                 IF p.is_today
                 THEN <<[item |-> i, is_today |-> TRUE,
                         parsed_date |-> p.parsed_date]>> \o rest
                 ELSE rest
            ELSE <<[item |-> i, is_today |-> FALSE,
                    parsed_date |-> NoDate]>> \o rest

extract_post_urls_and_dates_from_html(its) == HtmlTuples(its, 1)

\* lines 107-140: the same for the anchors with .html found by Playwright
RECURSIVE PlaywrightTuples(_, _)
PlaywrightTuples(its, i) ==
    IF i > Len(its) THEN <<>>
    ELSE LET it == its[i]
             rest == PlaywrightTuples(its, i + 1)
         IN IF it.link # "html" THEN rest
            ELSE IF it.span = NoSpan
            THEN <<[item |-> i, is_today |-> FALSE,
                    parsed_date |-> NoDate]>> \o rest
            ELSE LET date_text == IF Truthy(it.span.title) THEN it.span.title
                                  ELSE it.span.text
                     is_today == \/ Contains(Lower(date_text), TodayWord)
                                 \/ Contains(date_text, YearStr)
                 IN IF is_today
                    THEN <<[item |-> i, is_today |-> TRUE,
                            parsed_date |-> Today]>> \o rest
                    ELSE rest

extract_post_urls_with_playwright(its) == PlaywrightTuples(its, 1)

\* variant: any tuple that is not of today ends the collection
RECURSIVE TodayFilter_StopsAtAny(_, _, _)
TodayFilter_StopsAtAny(pd, i, found_first_today) ==
    IF i > Len(pd) THEN <<>>
    ELSE IF pd[i].is_today
    THEN <<pd[i]>> \o TodayFilter_StopsAtAny(pd, i + 1, TRUE)
    ELSE <<>>

\* lines 557-573: the today-filter of run_scraper from tuple i on
RECURSIVE TodayFilter(_, _, _)
TodayFilter(pd, i, found_first_today) ==
    IF i > Len(pd) THEN <<>>
    ELSE IF pd[i].is_today
    THEN <<pd[i]>> \o TodayFilter(pd, i + 1, TRUE)
    ELSE IF found_first_today THEN <<>>
    ELSE TodayFilter(pd, i + 1, FALSE)

\* lines 543: Method 1, the parsing of the page markup
D_ExtractHtml ==
    /\ dpc = "page"
    /\ post_data' = extract_post_urls_and_dates_from_html(items)
    /\ dpc' = IF post_data' = <<>> THEN "fallback" ELSE "filter"
    /\ UNCHANGED <<items, today_postings>>
    /\ UNCHANGED pipelineVars
    /\ UNCHANGED runVars
    /\ UNCHANGED callVars
    /\ UNCHANGED envVars

\* lines 546-555: Method 2 when Method 1 found nothing
D_ExtractPlaywright ==
    /\ dpc = "fallback"
    /\ post_data' = extract_post_urls_with_playwright(items)
    /\ dpc' = IF post_data' = <<>> THEN "failed" ELSE "filter"
    /\ UNCHANGED <<items, today_postings>>
    /\ UNCHANGED pipelineVars
    /\ UNCHANGED runVars
    /\ UNCHANGED callVars
    /\ UNCHANGED envVars

\* lines 557-582: the postings of today
D_Filter ==
    /\ dpc = "filter"
    /\ today_postings' = TodayFilter(post_data, 1, FALSE)
    /\ dpc' = IF today_postings' = <<>> THEN "failed" ELSE "found"
    /\ UNCHANGED <<items, post_data>>
    /\ UNCHANGED pipelineVars
    /\ UNCHANGED runVars
    /\ UNCHANGED callVars
    /\ UNCHANGED envVars

ItemSequences == UNION { [1..n -> ItemKinds] : n \in 1..MaxItems }

InitPipelineIdle ==
    /\ sheet = <<HeaderRow>>
    /\ cfg = [test_mode |-> TRUE, max_links |-> 1, timeout_seconds |-> 5]
    /\ pc = "idle"
    /\ clock = 0
    /\ todays_links = <<>>
    /\ idx = 0
    /\ results = <<>>
    /\ cur = NoCur
    /\ browser = "none"
    /\ retval = "none"
    /\ timed_out = FALSE
    /\ calls = <<>>
    /\ proxy = NoProxy
    /\ other = NoOther
    /\ scrape = NoScrape

InitDiscovery ==
    /\ items \in ItemSequences
    /\ post_data = <<>>
    /\ today_postings = <<>>
    /\ dpc = "page"
    /\ InitPipelineIdle
    /\ InitFirstRun
    /\ InitCallIdle

NextDiscovery ==
    \/ D_ExtractHtml
    \/ D_ExtractPlaywright
    \/ D_Filter

SpecDiscovery == InitDiscovery /\ [][NextDiscovery]_vars

\* ------------------------------------------------------------------------
\* The posting loop of run_scraper (scraper_rewritten.py lines 585-678)
\* ------------------------------------------------------------------------
\* the postings of today of one run: up to n postings with one of two links
\* each, so that a link can come twice
PostingLists(n) ==
    UNION { [1..k -> [url : {UrlOf(2), UrlOf(3)}, date : {TodayStr}]] :
              k \in 1..n }

\* variant: the link is looked up in column 12
check_duplicate_posting_WebsiteColumn(worksheet, posting_url, raises) ==
    IF raises THEN FALSE
    ELSE \E r \in 1..Len(worksheet) : worksheet[r].email = posting_url

\* lines 401-408: posting_url in worksheet.col_values(11)
check_duplicate_posting(worksheet, posting_url, raises) ==
    IF raises THEN FALSE
    ELSE \E r \in 1..Len(UrlColumn(worksheet)) :
            UrlColumn(worksheet)[r] = posting_url

\* lines 598-604: the duplicate check of posting i, and the continue
S_CheckDuplicate ==
    /\ dpc = "check"
    /\ \E raises \in BOOLEAN :
          LET dup == check_duplicate_posting(sheet, today_postings[scrape.i].url,
                                             raises)
              last == scrape.i = Len(today_postings)
          IN /\ scrape' = IF dup
                          THEN [scrape EXCEPT
                                   !.skipped_count = @ + 1, !.i = @ + 1,
                                   !.reads_ok = @ /\ ~raises]
                          ELSE [scrape EXCEPT !.reads_ok = @ /\ ~raises]
             /\ dpc' = IF ~dup THEN "add"
                       ELSE IF last THEN "report" ELSE "check"
    /\ UNCHANGED <<items, post_data, today_postings>>
    /\ UNCHANGED pipelineVars
    /\ UNCHANGED runVars
    /\ UNCHANGED callVars
    /\ UNCHANGED <<proxy, other>>

\* lines 606-657: the posting is opened and analysed and its row appended
\* (column 3 the date, column 11 the link, column 12 the website); an
\* exception of any of these steps puts the link on failed_urls
S_Add ==
    /\ dpc = "add"
    /\ \E outcome \in {"ok", "page_raises", "append_raises"} :
          IF outcome = "ok"
          THEN /\ sheet' = Append(sheet,
                                  [date |-> today_postings[scrape.i].date,
                                   url |-> today_postings[scrape.i].url,
                                   email |-> WebsiteText, phone |-> None])
               /\ scrape' = [scrape EXCEPT !.entries_added = @ + 1,
                                           !.i = @ + 1]
          ELSE /\ sheet' = sheet
               /\ scrape' = [scrape EXCEPT !.failed = @ + 1, !.i = @ + 1]
    /\ dpc' = IF scrape.i = Len(today_postings) THEN "report" ELSE "check"
    /\ UNCHANGED <<cfg, pc, clock, todays_links, idx, results, cur, browser,
                   retval, timed_out, calls>>
    /\ UNCHANGED <<items, post_data, today_postings>>
    /\ UNCHANGED runVars
    /\ UNCHANGED callVars
    /\ UNCHANGED <<proxy, other>>

\* lines 659-678: the final report and the value returned
S_Report ==
    /\ dpc = "report"
    /\ retval' = IF scrape.entries_added > 0 THEN "True" ELSE "False"
    /\ dpc' = "returned"
    /\ UNCHANGED <<sheet, cfg, pc, clock, todays_links, idx, results, cur,
                   browser, timed_out, calls>>
    /\ UNCHANGED <<items, post_data, today_postings>>
    /\ UNCHANGED runVars
    /\ UNCHANGED callVars
    /\ UNCHANGED envVars

\* run_scraper is run again, on the postings of today it finds then
S_Again ==
    /\ dpc = "returned"
    /\ run < MaxRuns
    /\ run' = run + 1
    /\ today_postings' \in PostingLists(MaxRows)
    /\ scrape' = [NoScrape EXCEPT !.i = 1, !.reads_ok = scrape.reads_ok,
                                  !.base = scrape.base]
    /\ retval' = "none"
    /\ dpc' = "check"
    /\ UNCHANGED <<sheet, cfg, pc, clock, todays_links, idx, results, cur,
                   browser, timed_out, calls>>
    /\ UNCHANGED <<items, post_data>>
    /\ UNCHANGED <<partial, reopened, before>>
    /\ UNCHANGED callVars
    /\ UNCHANGED <<proxy, other>>

\* the worksheet holds its header alone or one row of an earlier day's run
InitScrape ==
    /\ sheet \in { <<HeaderRow>>,
                   <<HeaderRow, [date |-> OtherStr, url |-> UrlOf(2),
                                 email |-> WebsiteText, phone |-> None]>> }
    /\ today_postings \in PostingLists(MaxRows)
    /\ scrape = [NoScrape EXCEPT !.i = 1, !.base = Len(sheet)]
    /\ dpc = "check"
    /\ items = <<>>
    /\ post_data = <<>>
    /\ cfg = [test_mode |-> TRUE, max_links |-> 1, timeout_seconds |-> 5]
    /\ pc = "idle"
    /\ clock = 0
    /\ todays_links = <<>>
    /\ idx = 0
    /\ results = <<>>
    /\ cur = NoCur
    /\ browser = "none"
    /\ retval = "none"
    /\ timed_out = FALSE
    /\ calls = <<>>
    /\ proxy = NoProxy
    /\ other = NoOther
    /\ InitFirstRun
    /\ InitCallIdle

NextScrape ==
    \/ S_CheckDuplicate
    \/ S_Add
    \/ S_Report
    \/ S_Again

SpecScrape == InitScrape /\ [][NextScrape]_vars

\* ------------------------------------------------------------------------
\* The validators and the dedup check called on their own
\* ------------------------------------------------------------------------
\* the ways a phone number is written
Decorate(d, k) ==
    CASE k = "dashed" ->
            IF Len(d) >= 7
            THEN SubSeq(d, 1, 3) \o <<"-">> \o SubSeq(d, 4, 6) \o <<"-">>
                 \o SubSeq(d, 7, Len(d))
            ELSE d \o <<"-">>
      [] k = "parens" ->
            IF Len(d) >= 7
            THEN <<"(">> \o SubSeq(d, 1, 3) \o <<")", " ">> \o SubSeq(d, 4, 6)
                 \o <<"-">> \o SubSeq(d, 7, Len(d))
            ELSE <<"(">> \o d \o <<")">>
      [] k = "plus" -> <<"+">> \o d
      [] OTHER -> d

\* the phone arguments: strings of up to MaxDigits digits 1 and 5, written
\* in each of the ways, and None
PhoneInputs ==
    LET DigitStrings == UNION { [1..n -> {"1", "5"}] : n \in 0..MaxDigits }
        Decorations == {"plain", "dashed", "parens", "plus"}
    IN { Decorate(d, k) : d \in DigitStrings, k \in Decorations } \cup {None}

NotAnEmail == <<"n", "o", "t", "-", "a", "n", "-", "e", "m", "a", "i", "l">>

\* the email arguments: a local part, an at sign or none, a domain, a dot
\* or none, a top-level domain and a tail put together; None; a plain word
EmailInputs ==
    LET EmailLocals ==
            { <<"a">>, <<"A", ".", "b">>, <<>>, <<"a", " ", "b">>,
              <<"n", "o", "r", "e", "p", "l", "y">> }
        EmailAts == { <<"@">>, <<>> }
        EmailDomains ==
            { <<"b">>, <<"a", "c", "m", "e">>, <<"b", "_", "c">>,
              <<"n", "o", "r", "e", "p", "l", "y">>,
              <<"N", "o", "R", "e", "p", "l", "y">>,
              <<"n", "o", "-", "r", "e", "p", "l", "y">>,
              <<"d", "o", "n", "o", "t", "r", "e", "p", "l", "y">>,
              <<"e", "x", "a", "m", "p", "l", "e">>,
              <<"t", "e", "s", "t">>,
              <<"c", "o", "n", "t", "e", "s", "t">> }
        EmailDots == { <<".">>, <<>> }
        EmailTlds ==
            { <<"c", "o", "m">>, <<"C", "O", "M">>, <<"c">>,
              <<"c", "|", "m">>, <<"c", "0", "m">>,
              <<"c", "o", ".", "u", "k">> }
        EmailTails == { <<>>, <<"\n">>, <<" ">> }
    IN { l \o a \o d \o p \o t \o e :
           l \in EmailLocals, a \in EmailAts, d \in EmailDomains,
           p \in EmailDots, t \in EmailTlds, e \in EmailTails }
       \cup {None, NotAnEmail}

\* the values of a cell of the worksheet
AtSign == <<"@">>

\* the li and div elements of a search page as the selectors of lines
\* 213-244 see them: the tag, the class ("none": no class attribute), the
\* data-pid attribute, an anchor inside whose href holds ".html"
ElementKinds ==
    [tag : {"li", "div"},
     class : {"none", "cl-search-result", "result-info", "gallery"},
     data_pid : BOOLEAN, html_link : BOOLEAN]

\* the pages of up to n elements
Pages(n) == UNION { [1..k -> ElementKinds] : k \in 0..n }

\* the elements (by position in the page) find_all returns for strategy k
StrategyItems(k, page) ==
    LET Matches(i) ==
            LET e == page[i] IN
            CASE k = 1 -> e.tag = "li" /\ e.class = "cl-search-result"
              [] k = 2 -> e.tag = "li" /\ e.data_pid
              [] k = 3 -> e.tag = "div"
                            /\ e.class \in {"cl-search-result", "result-info"}
              [] k = 4 -> e.class # "none" /\ e.html_link
              [] OTHER -> e.tag = "li"
    IN SelectSeq([i \in 1..Len(page) |-> i], Matches)

\* variant: the items of all the strategies are collected
result_items_Merged(page) ==
    LET InSome(i) == \E k \in 1..5 :
                     \E j \in 1..Len(StrategyItems(k, page)) :
                         StrategyItems(k, page)[j] = i
    IN SelectSeq([i \in 1..Len(page) |-> i], InSome)

\* lines 213-244 of scraper_rewritten.py: result_items once the strategies
\* have been tried
result_items(page) ==
    IF StrategyItems(1, page) # <<>> THEN StrategyItems(1, page)
    ELSE IF StrategyItems(2, page) # <<>> THEN StrategyItems(2, page)
    ELSE IF StrategyItems(3, page) # <<>> THEN StrategyItems(3, page)
    ELSE IF StrategyItems(4, page) # <<>> THEN StrategyItems(4, page)
    ELSE StrategyItems(5, page)

CellValues ==
    { None, <<>>, <<" ">>, AtSign, <<" ", "@", " ">>, WebsiteText,
      NoEmailFound, NoPhoneFound, JobsAtAcme }

AddressUrl == <<"/", "a", "@", "b", ".", "h", "t", "m", "l">>

\* a data row and whether the read of its email cell raises
RowInputs ==
    [date : {TodayStr}, url : {UrlOf(2), AddressUrl}, email : CellValues,
     phone : CellValues, raises : BOOLEAN]

CallInputs ==
    { [fn |-> "validate_email", arg |-> a] : a \in EmailInputs }
    \cup { [fn |-> f, arg |-> a] :
             f \in {"validate_phone", "format_phone"}, a \in PhoneInputs }
    \cup { [fn |-> "check_if_contact_exists", arg |-> a] : a \in RowInputs }

\* the worksheet with the row of the argument as its only data row
SheetOf(row) ==
    <<HeaderRow, [date |-> row.date, url |-> row.url, email |-> row.email,
                  phone |-> row.phone]>>

\* worksheets of n data rows for get_todays_outreach_links: date cells that
\* are empty, of today, of today with white space around, of another day or
\* blank; link cells that are empty or filled
Worksheets(n) ==
    LET Dates == {None, TodayStr, <<" ">> \o TodayStr \o <<" ">>, OtherStr,
                  <<" ">>}
        Cells == [date : Dates, filled : BOOLEAN]
    IN { [r \in 1..(n + 1) |->
            IF r = 1 THEN HeaderRow
            ELSE [date |-> f[r].date,
                  url |-> IF f[r].filled THEN UrlOf(r) ELSE None,
                  email |-> None, phone |-> None]] :
          f \in [2..(n + 1) -> Cells] }

Call_validate_email ==
    /\ fn = "validate_email"
    /\ stage = 0
    /\ out' = validate_email(arg)
    /\ stage' = 1
    /\ UNCHANGED <<fn, arg, fn2, out2>>
    /\ UNCHANGED <<pipelineVars, discoveryVars, runVars, envVars>>

Call_validate_phone ==
    /\ fn = "validate_phone"
    /\ stage = 0
    /\ out' = validate_phone(arg)
    /\ stage' = 1
    /\ UNCHANGED <<fn, arg, fn2, out2>>
    /\ UNCHANGED <<pipelineVars, discoveryVars, runVars, envVars>>

Call_format_phone ==
    /\ fn = "format_phone"
    /\ stage = 0
    /\ out' = format_phone(arg)
    /\ stage' = 1
    /\ UNCHANGED <<fn, arg, fn2, out2>>
    /\ UNCHANGED <<pipelineVars, discoveryVars, runVars, envVars>>

Call_check_if_contact_exists ==
    /\ fn = "check_if_contact_exists"
    /\ stage = 0
    /\ out' = check_if_contact_exists(SheetOf(arg), 2, arg.raises)
    /\ stage' = 1
    /\ UNCHANGED <<fn, arg, fn2, out2>>
    /\ UNCHANGED <<pipelineVars, discoveryVars, runVars, envVars>>

Call_result_items ==
    /\ fn = "result_items"
    /\ stage = 0
    /\ out' = result_items(arg)
    /\ stage' = 1
    /\ UNCHANGED <<fn, arg, fn2, out2>>
    /\ UNCHANGED <<pipelineVars, discoveryVars, runVars, envVars>>

Call_get_todays_outreach_links ==
    /\ fn = "get_todays_outreach_links"
    /\ stage = 0
    /\ out' = get_todays_outreach_links(arg.ws, arg.raises)
    /\ stage' = 1
    /\ UNCHANGED <<fn, arg, fn2, out2>>
    /\ UNCHANGED <<pipelineVars, discoveryVars, runVars, envVars>>

\* the formatted phone is validated, as update_contact_in_sheet's caller
\* sees it after extract_from_clipboard (lines 385-388)
Call_validate_phone_again ==
    /\ fn = "format_phone"
    /\ stage = 1
    /\ fn2' = "validate_phone"
    /\ out2' = validate_phone(out)
    /\ stage' = 2
    /\ UNCHANGED <<fn, arg, out>>
    /\ UNCHANGED <<pipelineVars, discoveryVars, runVars, envVars>>

\* the formatted phone is formatted again, as update_contact_in_sheet does
\* with a phone taken from the markup (lines 291-293)
Call_format_phone_again ==
    /\ fn = "format_phone"
    /\ stage = 1
    /\ fn2' = "format_phone"
    /\ out2' = format_phone(out)
    /\ stage' = 2
    /\ UNCHANGED <<fn, arg, out>>
    /\ UNCHANGED <<pipelineVars, discoveryVars, runVars, envVars>>

InitCalls ==
    /\ \/ \E c \in CallInputs : fn = c.fn /\ arg = c.arg
       \/ fn = "result_items" /\ arg \in Pages(MaxElems)
       \/ /\ fn = "get_todays_outreach_links"
          /\ arg \in [ws : Worksheets(MaxRows + 1), raises : BOOLEAN]
    /\ stage = 0
    /\ out = None
    /\ fn2 = "none"
    /\ out2 = None
    /\ InitPipelineIdle
    /\ InitDiscoveryIdle
    /\ InitFirstRun

NextCalls ==
    \/ Call_validate_email
    \/ Call_validate_phone
    \/ Call_format_phone
    \/ Call_check_if_contact_exists
    \/ Call_result_items
    \/ Call_get_todays_outreach_links
    \/ Call_validate_phone_again
    \/ Call_format_phone_again

SpecCalls == InitCalls /\ [][NextCalls]_vars

\* ------------------------------------------------------------------------
\* test_open_first_url (test_scraper.py)
\* ------------------------------------------------------------------------
\* lines 11-20: the links of today are fetched; without a link the test
\* returns
T_Fetch ==
    /\ pc = "t_fetch"
    /\ \E raises \in BOOLEAN :
          /\ todays_links' = get_todays_outreach_links(sheet, raises)
          /\ pc' = IF todays_links' = <<>> THEN "t_done" ELSE "t_launch"
    /\ calls' = Append(calls, Call("get_todays_outreach_links", 0))
    /\ UNCHANGED <<sheet, cfg, clock, idx, results, cur, browser, retval,
                   timed_out>>
    /\ UNCHANGED discoveryVars
    /\ UNCHANGED runVars
    /\ UNCHANGED callVars
    /\ UNCHANGED envVars

\* line 38: chromium.launch returns a browser or raises
T_Launch ==
    /\ pc = "t_launch"
    /\ \E raises \in BOOLEAN :
          IF raises
          THEN browser' = browser /\ pc' = "t_done"
          ELSE browser' = "open" /\ pc' = "t_page"
    /\ calls' = Append(calls, Call("launch", 0))
    /\ UNCHANGED <<sheet, cfg, clock, todays_links, idx, results, cur, retval,
                   timed_out>>
    /\ UNCHANGED discoveryVars
    /\ UNCHANGED runVars
    /\ UNCHANGED callVars
    /\ UNCHANGED envVars

\* line 39: browser.new_page(), before the try statement; its exception
\* leaves the function
T_NewPage ==
    /\ pc = "t_page"
    /\ \E raises \in BOOLEAN : pc' = IF raises THEN "t_done" ELSE "t_goto"
    /\ calls' = Append(calls, Call("new_page", 0))
    /\ UNCHANGED <<sheet, cfg, clock, todays_links, idx, results, cur, browser,
                   retval, timed_out>>
    /\ UNCHANGED discoveryVars
    /\ UNCHANGED runVars
    /\ UNCHANGED callVars
    /\ UNCHANGED envVars

\* lines 41-53: the navigation to the first link, the except clause when
\* it raises, and the finally clause that closes the browser
T_Goto ==
    /\ pc = "t_goto"
    /\ \E raises \in BOOLEAN :
          calls' = calls
                   \o <<Call("goto", todays_links[1].row)>>
                   \o (IF raises THEN <<Call("except", todays_links[1].row)>>
                       ELSE <<>>)
                   \o <<Call("close", 0)>>
    /\ browser' = "closed"
    /\ pc' = "t_done"
    /\ UNCHANGED <<sheet, cfg, clock, todays_links, idx, results, cur, retval,
                   timed_out>>
    /\ UNCHANGED discoveryVars
    /\ UNCHANGED runVars
    /\ UNCHANGED callVars
    /\ UNCHANGED envVars

InitTest ==
    /\ sheet \in Worksheets(MaxRows)
    /\ cfg = [test_mode |-> TRUE, max_links |-> 1, timeout_seconds |-> 5]
    /\ pc = "t_fetch"
    /\ clock = 0
    /\ todays_links = <<>>
    /\ idx = 0
    /\ results = <<>>
    /\ cur = NoCur
    /\ browser = "none"
    /\ retval = "none"
    /\ timed_out = FALSE
    /\ calls = <<>>
    /\ proxy = NoProxy
    /\ other = NoOther
    /\ scrape = NoScrape
    /\ InitDiscoveryIdle
    /\ InitFirstRun
    /\ InitCallIdle

NextTest ==
    \/ T_Fetch
    \/ T_Launch
    \/ T_NewPage
    \/ T_Goto

SpecTest == InitTest /\ [][NextTest]_vars

\* ------------------------------------------------------------------------
\* Properties of the contact pipeline
\* ------------------------------------------------------------------------
PUStates == {"pu_dedup", "pu_goto", "pu_reply", "pu_options", "pu_email",
             "pu_phone", "pu_write", "pu_return"}

\* number of calls of op for sheet row row made so far in the run
CountCalls(op, row) ==
    Cardinality({i \in 1..Len(calls) : calls[i] = Call(op, row)})

\* number of calls of op made so far in the run
CountOp(op) == Cardinality({i \in 1..Len(calls) : calls[i].op = op})

InSeq(x, seq) == \E k \in 1..Len(seq) : seq[k] = x

\* the email-output cell of sheet row r is non-empty and contains '@'
HasStoredEmail(r) ==
    Truthy(sheet[r].email) /\ Contains(sheet[r].email, <<"@">>)

C2_WrittenUnlessSkipped ==
    \A i \in 1..Len(results) :
        CountCalls("update_contact_in_sheet", results[i].row_number)
            = IF results[i].status = "skipped" THEN 0 ELSE 1

\* C2 amended: every listing of the run whose outcome is success or
\* no_contact had exactly one write-back (one call of
\* update_contact_in_sheet), a listing whose outcome is skipped or error had
\* none, and no row has more than one write-back in a run.
C2_WrittenWhenResolved ==
    /\ \A i \in 1..Len(results) :
          CountCalls("update_contact_in_sheet", results[i].row_number)
              = IF results[i].status \in {"success", "no_contact"}
                THEN 1 ELSE 0
    /\ \A r \in 1..Len(sheet) : CountCalls("update_contact_in_sheet", r) <= 1

C2_Witness ==
    \E i, j \in 1..Len(results) :
        /\ results[i].status = "error"
        /\ results[j].status = "success"
        /\ CountCalls("update_contact_in_sheet", results[i].row_number) = 0
        /\ CountCalls("update_contact_in_sheet", results[j].row_number) = 1

\* C3: no exception leaves process_url: every call of process_url ends in a
\* record appended to results, whatever failed during the dedup read, the
\* navigation, the control lookups, the clicks or the write-back, and once
\* the loop has started the run leaves it only with every listing recorded
\* or through the timeout break.
C3_FailureIsolation ==
    /\ CountOp("process_url")
          = Len(results) + (IF pc \in PUStates THEN 1 ELSE 0)
    /\ (pc \in {"close", "summary", "done"} /\ idx >= 1)
          => (Len(results) = Len(todays_links) \/ timed_out)

C3_Witness ==
    /\ pc = "done"
    /\ \E i \in 1..Len(results) :
          /\ results[i].status = "error"
          /\ i < Len(results)
          /\ results[i + 1].status = "no_contact"

\* C4: process_url is only ever started while the elapsed time is within the
\* budget; when the budget is exceeded at the check before listing idx the
\* loop is left, neither that listing nor a later one is started, results
\* and sheet stay as they were, and the run returns True.
C4_GracefulBudgetExhaustion ==
    /\ [](pc \in PUStates => cur.started <= cfg.timeout_seconds)
    /\ [](timed_out
            => /\ pc \in {"close", "summary", "done"}
               /\ idx <= Len(todays_links)
               /\ Len(results) = idx - 1
               /\ CountOp("process_url") = idx - 1
               /\ (pc = "done" => retval = "True"))
    /\ [][(pc = "loop" /\ idx <= Len(todays_links)
             /\ clock > cfg.timeout_seconds)
            => (timed_out' /\ pc' = "close")]_vars
    /\ [][timed_out' => (results' = results /\ sheet' = sheet)]_vars

C4_Witness ==
    /\ pc = "done"
    /\ timed_out
    /\ Len(results) >= 1
    /\ Len(results) < Len(todays_links)
    /\ results[1].status = "success"
    /\ sheet[results[1].row_number].email = results[1].email
    /\ retval = "True"

\* C5: a process_url call in flight is left only through its return, with
\* its record appended to results, however long it took; a listing that
\* finished past the budget is the last one of the run; and with a budget of
\* 5 seconds and a first listing that took 8 seconds or more, that listing is
\* recorded, no other listing is started and the run returns True.
C5_InFlightRunsToCompletion ==
    /\ [][(pc \in PUStates)
            => (\/ pc' \in PUStates
                \/ (/\ pc' = "loop"
                    /\ Len(results') = Len(results) + 1
                    /\ results'[Len(results')].row_number = cur.row_number
                    /\ results'[Len(results')].status
                          \in {"success", "no_contact", "error", "skipped"}))
         ]_vars
    /\ [](\A i \in 1..Len(results) :
             results[i].finished > cfg.timeout_seconds => Len(results) = i)
    /\ []((/\ cfg.timeout_seconds = 5
           /\ Len(results) >= 1
           /\ results[1].finished - results[1].started >= 8)
            => /\ Len(results) = 1
               /\ CountOp("process_url") = 1
               /\ results[1].status \in {"success", "no_contact", "error"}
               /\ (pc = "done" => retval = "True"))

C5_Witness ==
    /\ pc = "done"
    /\ cfg.timeout_seconds = 5
    /\ Len(todays_links) >= 2
    /\ Len(results) = 1
    /\ results[1].finished - results[1].started >= 8
    /\ timed_out
    /\ retval = "True"

\* C8: a listing that was navigated to and extracted from gets the status
\* success exactly when an email or a phone value was obtained, and
\* no_contact otherwise.
C8_OutcomeClassification ==
    /\ (pc = "pu_return"
          /\ CountCalls("extract_contact_info_from_page", cur.row_number) = 1)
          => /\ cur.status \in {"success", "no_contact"}
             /\ cur.status = "success"
                   <=> (Truthy(cur.email) \/ Truthy(cur.phone))
    /\ \A i \in 1..Len(results) :
          CountCalls("extract_contact_info_from_page",
                     results[i].row_number) = 1
          => /\ results[i].status \in {"success", "no_contact"}
             /\ results[i].status = "success"
                   <=> (Truthy(results[i].email) \/ Truthy(results[i].phone))

C8_Witness ==
    \E i \in 1..Len(results) :
        /\ results[i].status = "success"
        /\ results[i].email = None
        /\ Truthy(results[i].phone)

C10_CallBeforeText ==
    pc \in PUStates
        => /\ "call" \in cur.has => ~InSeq("text", cur.activated)
           /\ Cardinality({k \in 1..Len(cur.activated) :
                              cur.activated[k] \in {"call", "text"}}) <= 1
           /\ (pc \in {"pu_write", "pu_return"} /\ "call" \in cur.has)
                 => InSeq("call", cur.activated)
           /\ (pc \in {"pu_write", "pu_return"} /\ cur.has = {"text"})
                 => cur.activated = <<"text">>

C10_Witness ==
    /\ pc = "pu_write"
    /\ {"call", "text"} \subseteq cur.has
    /\ cur.phone = None
    /\ InSeq("call", cur.activated)
    /\ ~InSeq("text", cur.activated)

\* ------------------------------------------------------------------------
\* Properties of the listing discovery
\* ------------------------------------------------------------------------
UsableLink(it) == it.link \in {"html", "plain"}

\* the item yields a descriptor whose date is the target day
TargetDayItem(it) ==
    /\ UsableLink(it)
    /\ it.span # NoSpan
    /\ parse_craigslist_date(it.span).is_today

\* the item yields a link but is not of the target day
NonTargetDayItem(it) == UsableLink(it) /\ ~TargetDayItem(it)

\* the item carries a date of the day before the target day
YesterdayItem(it) ==
    /\ UsableLink(it)
    /\ it.span # NoSpan
    /\ parse_craigslist_date(it.span).parsed_date = Yesterday

\* positions of the result items that discovery returned
Collected == {today_postings[k].item : k \in 1..Len(today_postings)}

\* C6: once a target-day item has been collected, no item located after the
\* first later item that is not target-day is collected; for the dates
\* [today, today, yesterday] exactly the first two items are returned and for
\* [today, yesterday, today] only the first.
C6_StopAtFirstNonTarget ==
    dpc \in {"found", "failed"}
        => /\ ~ \E i, j, k \in 1..Len(items) :
                  /\ i < j /\ j < k
                  /\ TargetDayItem(items[i]) /\ i \in Collected
                  /\ NonTargetDayItem(items[j])
                  /\ k \in Collected
           /\ (/\ Len(items) = 3
               /\ TargetDayItem(items[1])
               /\ TargetDayItem(items[2])
               /\ YesterdayItem(items[3])) => Collected = {1, 2}
           /\ (/\ Len(items) = 3
               /\ TargetDayItem(items[1])
               /\ YesterdayItem(items[2])
               /\ TargetDayItem(items[3])) => Collected = {1}

\* C7: items that are not target-day and precede every target-day item do not
\* stop the collection: the first target-day item is always collected, and
\* for the dates [yesterday, today, yesterday] exactly the middle item is
\* returned.
C7_LeadingNonTargetSkipped ==
    dpc \in {"found", "failed"}
        => /\ \A i \in 1..Len(items) :
                 (/\ TargetDayItem(items[i])
                  /\ \A j \in 1..(i - 1) : ~TargetDayItem(items[j]))
                 => i \in Collected
           /\ (/\ Len(items) = 3
               /\ YesterdayItem(items[1])
               /\ TargetDayItem(items[2])
               /\ YesterdayItem(items[3])) => Collected = {2}

C7_Witness ==
    /\ dpc = "found"
    /\ Len(items) = 3
    /\ YesterdayItem(items[1])
    /\ TargetDayItem(items[2])
    /\ YesterdayItem(items[3])
    /\ Collected = {2}
\* ------------------------------------------------------------------------
\* Properties of the fallback chain and of the write-back
\* ------------------------------------------------------------------------
\* the email channel was chosen in the call in flight, which has not
\* returned yet
EmailChosen == pc \in {"pu_phone", "pu_write"} /\ InSeq("email", cur.activated)

\* the clipboard read gave a value that passes validate_email once trimmed
ClipboardYields(env) ==
    /\ env.clip # ClipRaises
    /\ validate_email(Strip(env.clip))

\* the matches of the markup scan that pass validate_email, in page order
MarkupYields(env) == SelectSeq(env.html, validate_email)

\* the chain over the two sources: clipboard, then markup, then absent
ChainHolds(env, email) ==
    /\ ClipboardYields(env) => email = Strip(env.clip)
    /\ (~ClipboardYields(env) /\ MarkupYields(env) # <<>>)
          => email = MarkupYields(env)[1]
    /\ (~ClipboardYields(env) /\ MarkupYields(env) = <<>>) => email = None

\* C11 as stated: once the email button has been clicked, the email is the
\* trimmed clipboard value when that passes validate_email, else the first
\* markup match that passes validate_email, and is absent only when neither
\* source holds a valid value.
C11_FallbackChainAfterActivation ==
    (EmailChosen /\ cur.email_env.click = "ok")
        => ChainHolds(cur.email_env, cur.email)

\* C11 amended: the chain holds when the email button was clicked and the
\* copy button was found and clicked; when the click on the email button
\* raises, or the copy button is absent, or the query for it or the click on
\* it raises, the email is absent whatever the clipboard and the markup hold.
C11_FallbackChainAfterCopy ==
    EmailChosen =>
        IF cur.email_env.click = "ok" /\ cur.email_env.copy = "present"
        THEN ChainHolds(cur.email_env, cur.email)
        ELSE cur.email = None

\* the clipboard read raised and the second markup match was accepted, the
\* first one failing validate_email
C11_Witness ==
    /\ EmailChosen
    /\ cur.email_env.click = "ok"
    /\ cur.email_env.copy = "present"
    /\ cur.email_env.clip = ClipRaises
    /\ Len(cur.email_env.html) = 2
    /\ ~validate_email(cur.email_env.html[1])
    /\ cur.email = cur.email_env.html[2]

\* the listing in flight is the one of the scenario: only an email button,
\* which is clicked, the copy button clicked, the clipboard read raising and
\* the markup holding "jobs@acme.com"
EmailOnlyScenario ==
    /\ pc = "pu_write"
    /\ cur.has = {"email"}
    /\ cur.email_env.click = "ok"
    /\ cur.email_env.copy = "present"
    /\ cur.email_env.clip = ClipRaises
    /\ InSeq(JobsAtAcme, cur.email_env.html)

\* C12: the listing of the scenario returns status success with email
\* "jobs@acme.com" and no phone, and the write-back, its two cell updates
\* going through, leaves "jobs@acme.com" in the email cell of the row and
\* "No phone found" in its phone cell.
C12_EmailOnlyScenario ==
    [][EmailOnlyScenario =>
          (/\ pc' = "pu_return"
           /\ cur'.status = "success"
           /\ cur'.email = JobsAtAcme
           /\ cur'.phone = None
           /\ (cur'.write = "ok") =>
                 (/\ sheet'[cur.row_number].email = JobsAtAcme
                  /\ sheet'[cur.row_number].phone = NoPhoneFound
                  /\ cur'.sheet_updated))]_vars

\* the listing of the scenario has been processed and written back
C12_Witness ==
    /\ pc = "pu_return"
    /\ cur.has = {"email"}
    /\ cur.activated = <<"email">>
    /\ cur.status = "success"
    /\ cur.email = JobsAtAcme
    /\ cur.write = "ok"
    /\ sheet[cur.row_number].email = JobsAtAcme
    /\ sheet[cur.row_number].phone = NoPhoneFound
    /\ \E k \in 1..Len(calls) :
          calls[k] = Call("update_contact_in_sheet", cur.row_number)

\* the values process_url hands to the write-back
WrittenEmail == IF cur.contact_info # "None" THEN cur.email ELSE None
WrittenPhone == IF cur.contact_info # "None" THEN cur.phone ELSE None

\* what the cells receive from the two values
EmailCellFor(email) == IF Truthy(email) THEN email ELSE NoEmailFound
PhoneCellFor(phone) ==
    IF Truthy(phone) THEN format_phone(phone) ELSE NoPhoneFound

\* C13 as stated: in the write-back each cell is written unless its own
\* update raises: the email cell gets the email or "No email found", the
\* phone cell the formatted phone or "No phone found", whatever the other
\* value is and whether or not the update of the other cell raised.
C13_CellsWrittenIndependently ==
    [][(pc = "pu_write") =>
          (/\ (cur'.write # "email_write_raises") =>
                 sheet'[cur.row_number].email = EmailCellFor(WrittenEmail)
           /\ (cur'.write # "phone_write_raises") =>
                 sheet'[cur.row_number].phone = PhoneCellFor(WrittenPhone))]_vars

\* C13 amended: the email cell is written first and gets the email or
\* "No email found" unless its update raises; the phone cell gets the
\* formatted phone or "No phone found", whatever the email is, when neither
\* update raises; when the update of the email cell raises the phone cell is
\* not written, and when the update of the phone cell raises the email cell
\* keeps what was just written.  No other row changes.
C13_CellsWrittenInOrder ==
    [][(pc = "pu_write") =>
          (/\ cur'.status \in {"success", "no_contact"}
           /\ (cur'.write # "email_write_raises") =>
                 sheet'[cur.row_number].email = EmailCellFor(WrittenEmail)
           /\ (cur'.write = "ok") =>
                 sheet'[cur.row_number].phone = PhoneCellFor(WrittenPhone)
           /\ (cur'.write = "email_write_raises") => sheet' = sheet
           /\ (cur'.write = "phone_write_raises") =>
                 sheet'[cur.row_number].phone = sheet[cur.row_number].phone
           /\ \A r \in SheetRows \ {cur.row_number} : sheet'[r] = sheet[r])]_vars

\* a partial result has been written: no email but a phone, the email cell
\* holding the marker and the phone cell the formatted phone
C13_Witness ==
    /\ pc = "pu_return"
    /\ cur.write = "ok"
    /\ cur.email = None
    /\ cur.phone = PhoneDashed
    /\ sheet[cur.row_number].email = NoEmailFound
    /\ sheet[cur.row_number].phone = format_phone(PhoneDashed)
    /\ sheet[cur.row_number].phone # PhoneDashed

\* ------------------------------------------------------------------------
\* Properties of reruns
\* ------------------------------------------------------------------------
\* in the run under way row r has been neither navigated to nor extracted
\* from, and its phone cell holds the no-phone marker
LeftAlone(r) ==
    /\ CountCalls("goto", r) = 0
    /\ CountCalls("extract_contact_info_from_page", r) = 0
    /\ sheet[r].phone = NoPhoneFound

Called(f) == fn = f /\ stage >= 1

HasAt(s) == \E i \in 1..Len(s) : s[i] = "@"

\* the cell holds something else than white space
NonEmptyCell(s) == s # None /\ \E i \in 1..Len(s) : s[i] \notin SpaceChars

\* C15 as stated: check_if_contact_exists returns True exactly when the
\* email cell of the row is non-empty after trimming and holds an '@',
\* whatever the phone cell and the link cell hold.
C15_ExistsIffEmailCell ==
    Called("check_if_contact_exists")
        => (out <=> (NonEmptyCell(arg.email) /\ HasAt(arg.email)))

\* C15 amended: check_if_contact_exists returns True exactly when the read
\* of the email cell does not raise and the cell is non-empty after trimming
\* and holds an '@', whatever the phone cell and the link cell hold; when the
\* read raises it returns False.
C15_ExistsIffEmailCellRead ==
    Called("check_if_contact_exists")
        => (out <=> (/\ ~arg.raises
                     /\ NonEmptyCell(arg.email)
                     /\ HasAt(arg.email)))

\* the check has returned False on a row whose phone cell and link cell hold
\* an '@' and whose email cell holds none
C15_Witness ==
    /\ Called("check_if_contact_exists")
    /\ ~arg.raises
    /\ arg.email = NoEmailFound
    /\ HasAt(arg.phone)
    /\ HasAt(arg.url)
    /\ out = FALSE

DigitPositions(s) == {i \in 1..Len(s) : s[i] \in DigitChars}

DigitCount(s) == Cardinality(DigitPositions(s))

FirstDigit(s) ==
    s[CHOOSE i \in DigitPositions(s) : \A j \in DigitPositions(s) : i <= j]

\* s holds ten digits, or eleven of which the first is 1
ReducibleToTen(s) ==
    /\ s # None
    /\ \/ DigitCount(s) = 10
       \/ DigitCount(s) = 11 /\ FirstDigit(s) = "1"

\* C16: validate_phone returns True exactly when its argument holds ten
\* digits, or eleven digits of which the first is 1, whatever other
\* characters stand between them; it returns False on eleven digits of
\* which the first is not 1.
C16_ValidatePhone ==
    Called("validate_phone") => (out <=> ReducibleToTen(arg))

\* validate_phone has returned False on eleven digits written with dashes
\* of which the first is 5
C16_Witness ==
    /\ Called("validate_phone")
    /\ arg # None
    /\ DigitCount(arg) = 11
    /\ Len(arg) > 11
    /\ FirstDigit(arg) = "5"
    /\ out = FALSE

\* the ten digits s is reduced to
TenDigits(s) ==
    IF DigitCount(s) = 11 THEN Tail(DigitsOnly(s)) ELSE DigitsOnly(s)

\* s reads (XXX) XXX-XXXX
PhoneShape(s) ==
    /\ Len(s) = 14
    /\ s[1] = "(" /\ s[5] = ")" /\ s[6] = " " /\ s[10] = "-"
    /\ \A i \in {2, 3, 4, 7, 8, 9, 11, 12, 13, 14} : s[i] \in DigitChars

\* C17 as stated: format_phone returns (XXX) XXX-XXXX over the ten digits
\* its argument is reduced to, and returns every other argument, the empty
\* string included, unchanged.
C17_FormatOrUnchanged ==
    Called("format_phone") =>
        IF ReducibleToTen(arg)
        THEN PhoneShape(out) /\ DigitsOnly(out) = TenDigits(arg)
        ELSE out = arg

\* C17 amended: format_phone returns (XXX) XXX-XXXX over the ten digits its
\* argument is reduced to, returns None for the empty string and for None,
\* and returns every other argument unchanged.
C17_FormatOrUnchangedOrNone ==
    Called("format_phone") =>
        IF ReducibleToTen(arg)
        THEN PhoneShape(out) /\ DigitsOnly(out) = TenDigits(arg)
        ELSE IF arg = <<>> \/ arg = None THEN out = None
        ELSE out = arg

\* format_phone has dropped the leading 1 of eleven digits written with
\* other characters
C17_Witness ==
    /\ Called("format_phone")
    /\ arg # None
    /\ DigitCount(arg) = 11
    /\ Len(arg) > 11
    /\ PhoneShape(out)
    /\ DigitsOnly(out) = Tail(DigitsOnly(arg))

\* arg is a string of ten digits
TenDigitString == arg # None /\ Len(arg) = 10 /\ DigitCount(arg) = 10

\* C18: for a string of ten digits format_phone returns (XXX) XXX-XXXX,
\* validate_phone returns True on what it returned, and format_phone returns
\* it unchanged.
C18_FormatFixedPoint ==
    (Called("format_phone") /\ TenDigitString) =>
        /\ PhoneShape(out)
        /\ (stage = 2 /\ fn2 = "validate_phone") => out2 = TRUE
        /\ (stage = 2 /\ fn2 = "format_phone") => out2 = out

\* the formatted ten digits have been formatted again
C18_Witness ==
    /\ Called("format_phone")
    /\ TenDigitString
    /\ stage = 2
    /\ fn2 = "format_phone"
    /\ out # arg
    /\ out2 = out

\* s reads local@domain.tld: a local part of letters, digits and ._%+-, an
\* '@', a domain of letters, digits, dots and dashes, a dot and a top-level
\* domain of two letters or more
Letters == LowerChars \cup UpperChars

LocalAtDomainTld(s) ==
    \E i \in 2..Len(s) :
        /\ s[i] = "@"
        /\ \A k \in 1..(i - 1) : s[k] \in LocalChars
        /\ \E j \in (i + 2)..(Len(s) - 2) :
              /\ s[j] = "."
              /\ \A k \in (i + 1)..(j - 1) : s[k] \in DomainChars
              /\ \A k \in (j + 1)..Len(s) : s[k] \in Letters

NoPlaceholder(s) ==
    \A d \in 1..Len(invalid_domains) : ~Contains(Lower(s), invalid_domains[d])

\* C19: validate_email returns True exactly when its argument reads
\* local@domain.tld and holds none of noreply, no-reply, donotreply,
\* example.com, test.com in any case.
C19_ValidateEmailIffShape ==
    Called("validate_email")
        => (out <=> (/\ arg # None
                     /\ LocalAtDomainTld(arg)
                     /\ NoPlaceholder(arg)))

\* ------------------------------------------------------------------------
\* Properties of the processing order
\* ------------------------------------------------------------------------
\* the process_url calls of the run, in the order they were made
Processed == SelectSeq(calls, LAMBDA c : c.op = "process_url")

\* C20: the rows process_url was called for are, in the order of the calls,
\* the first rows of todays_links, each once; the records in results follow
\* the same order, and todays_links lists the rows in the order of the
\* worksheet.
C20_ProcessedInOrder ==
    /\ Len(Processed) <= Len(todays_links)
    /\ \A k \in 1..Len(Processed) : Processed[k].row = todays_links[k].row
    /\ \A j, k \in 1..Len(Processed) :
          j # k => Processed[j].row # Processed[k].row
    /\ Len(results) <= Len(Processed)
    /\ \A k \in 1..Len(results) :
          results[k].row_number = todays_links[k].row
    /\ \A j, k \in 1..Len(todays_links) :
          j < k => todays_links[j].row < todays_links[k].row

\* two listings have been processed, the second one after the first one
\* had returned
C20_Witness ==
    /\ Len(todays_links) >= 2
    /\ Len(Processed) = 2
    /\ Len(results) = 2
    /\ Processed[1].row = todays_links[1].row
    /\ Processed[2].row = todays_links[2].row

\* ------------------------------------------------------------------------
\* C21: the return value of the run and the outcomes of its listings
\* ------------------------------------------------------------------------
\* some listing of the run had outcome Success
SomeSuccess ==
    \E i \in 1..Len(results) : results[i].status = "success"

\* C21: when the run has returned, its return value (True: exit code 0,
\* False: exit code 1) is True if and only if at least one listing of the
\* run had outcome Success. (As stated.)
C21_ExitReflectsSuccess ==
    (pc = "done") => ((retval = "True") <=> SomeSuccess)

ProxyConfigured == { k \in {"server", "username", "password"} :
                        Truthy(proxy[k]) }

\* the module has been loaded without an error
StartupProceeded == pc \notin {"import", "config_error"}

\* the run has neither navigated nor touched the store
NothingDone ==
    /\ calls = <<>>
    /\ browser = "none"
    /\ results = <<>>

\* C23 as stated: with one or two of the three settings configured the
\* startup fails before any navigation or store access, and the startup
\* proceeds only with all three or none of them configured.
C23_AllOrNothing ==
    /\ (Cardinality(ProxyConfigured) \in {1, 2} /\ pc # "import")
          => (pc = "config_error" /\ NothingDone)
    /\ StartupProceeded => (Cardinality(ProxyConfigured) \in {0, 3})

\* C23: with PROXY_ENABLED true and a setting missing the startup fails
\* before any navigation or store access, and with PROXY_ENABLED true it
\* proceeds only with all three configured; with PROXY_ENABLED not true the
\* startup proceeds whatever settings are configured.
C23_AllWhenEnabled ==
    /\ (proxy.enabled /\ Cardinality(ProxyConfigured) < 3 /\ pc # "import")
          => (pc = "config_error" /\ NothingDone)
    /\ (StartupProceeded /\ proxy.enabled)
          => (Cardinality(ProxyConfigured) = 3)
    /\ (~proxy.enabled /\ pc # "import") => StartupProceeded

\* the startup failed with the proxy enabled and the password missing
C23_Witness ==
    /\ pc = "config_error"
    /\ proxy.enabled
    /\ ProxyConfigured = {"server", "username"}

\* ------------------------------------------------------------------------
\* C24: two processes over the same worksheet
\* ------------------------------------------------------------------------
\* the process (1: started first, 2: the other one) that made calls[n]
ProcessAt(n) ==
    (Cardinality({i \in 1..n : calls[i].op = "switch"}) % 2) + 1

\* the positions in the history where process n made the call op on row r
CallsBy(n, op, r) ==
    {i \in 1..Len(calls) : calls[i] = Call(op, r) /\ ProcessAt(i) = n}

\* C24 (single runs are safe): a process of the script extracts from no row
\* more than once; in particular, as long as only one process has run, no
\* row has been extracted from more than once.
C24_SingleRunExtractsOnce ==
    /\ \A n \in {1, 2} : \A r \in SheetRows :
          Cardinality(CallsBy(n, "extract_contact_info_from_page", r)) <= 1
    /\ (CountOp("switch") = 0) =>
          \A r \in SheetRows :
              CountCalls("extract_contact_info_from_page", r) <= 1

\* C24 (concurrent runs are unsafe): the second process made its dedup check
\* on a row after the first one's dedup check and before the first one's
\* write-back, and the row has been extracted from and written by both
C24_Witness ==
    \E r \in SheetRows :
       /\ \E i \in CallsBy(1, "check_if_contact_exists", r) :
          \E j \in CallsBy(2, "check_if_contact_exists", r) :
          \E k \in CallsBy(1, "update_contact_in_sheet", r) :
              i < j /\ j < k
       /\ CallsBy(1, "extract_contact_info_from_page", r) # {}
       /\ CallsBy(2, "extract_contact_info_from_page", r) # {}
       /\ CallsBy(2, "update_contact_in_sheet", r) # {}
       /\ Truthy(sheet[r].email)

\* ------------------------------------------------------------------------
\* C25: a write-back that fails
\* ------------------------------------------------------------------------
\* the write-back of the call in flight raised at one of its cells
WriteFailed(c) == c.write \in {"email_write_raises", "phone_write_raises"}

\* C25: when an update_cell call of a listing's write-back raises, the
\* write-back still returns into process_url (no exception leaves it), the
\* status, email and phone of the listing are those of the extraction and
\* are appended to the results of the run as they are, and the cell whose
\* write raised holds the value it held before the write-back.
C25_FailedWriteKeepsOutcome ==
    [][/\ (pc = "pu_write" /\ pc' # pc /\ WriteFailed(cur')) =>
             LET email == IF cur.contact_info # "None" THEN cur.email ELSE None
                 phone == IF cur.contact_info # "None" THEN cur.phone ELSE None
             IN /\ pc' = "pu_return"
                /\ cur'.email = email
                /\ cur'.phone = phone
                /\ cur'.status = IF Truthy(email) \/ Truthy(phone)
                                 THEN "success" ELSE "no_contact"
                /\ ~cur'.sheet_updated
                /\ (cur'.write = "email_write_raises") =>
                      sheet'[cur.row_number] = sheet[cur.row_number]
                /\ (cur'.write = "phone_write_raises") =>
                      sheet'[cur.row_number].phone
                          = sheet[cur.row_number].phone
       /\ (pc = "pu_return" /\ pc' # pc /\ WriteFailed(cur)) =>
             /\ pc' = "loop"
             /\ Len(results') = Len(results) + 1
             /\ results'[Len(results')].row_number = cur.row_number
             /\ results'[Len(results')].status = cur.status
             /\ results'[Len(results')].email = cur.email
             /\ results'[Len(results')].phone = cur.phone]_vars

\* the run has returned with a Success in its results whose email was never
\* stored: the write of the email cell raised and the cell is still empty
C25_Witness ==
    /\ pc = "done"
    /\ \E i \in 1..Len(results) :
          /\ results[i].status = "success"
          /\ results[i].email = JobsAtAcme
          /\ ~results[i].sheet_updated
          /\ sheet[results[i].row_number].email = None

\* ------------------------------------------------------------------------
\* C26: what a run changes in the worksheet
\* ------------------------------------------------------------------------
\* C26: no step of the contact pipeline adds, deletes or moves a row or
\* changes a date-added or outreach-link cell; a step that changes the
\* worksheet is the write-back of the listing being processed and changes
\* nothing but the email-output and phone-output cells of that listing's row.
C26_OnlyOutputCellsOfProcessedRows ==
    [][/\ DOMAIN sheet' = DOMAIN sheet
       /\ \A r \in DOMAIN sheet :
             /\ sheet'[r].date = sheet[r].date
             /\ sheet'[r].url = sheet[r].url
             /\ (sheet'[r] # sheet[r]) =>
                   /\ pc = "pu_write"
                   /\ r = cur.row_number
                   /\ \E i \in 1..Len(todays_links) :
                         todays_links[i].row = r]_vars

\* a run in test mode has written the output cells of the first listing of
\* today and has returned; the second row of today, which it did not
\* process, holds what it held
C26_Witness ==
    /\ pc = "done"
    /\ Len(results) = 1
    /\ results[1].row_number = 2
    /\ results[1].sheet_updated
    /\ sheet[2].email = results[1].email
    /\ sheet[2].url = UrlOf(2)
    /\ sheet[3] = [date |-> TodayStr, url |-> UrlOf(3), email |-> JobsAtAcme,
                   phone |-> NoPhoneFound]

\* ------------------------------------------------------------------------
\* C27: the cap of test mode
\* ------------------------------------------------------------------------
\* the listings of today as the worksheet lists them (the run changes no
\* date-added or outreach-link cell)
ListedToday == get_todays_outreach_links(sheet, FALSE)

\* C27: once the listings have been fetched, in test mode the list the run
\* works on is the first max_links entries of the listings of today, in
\* their order, and no more than max_links listings are processed; with
\* test mode off the list is all the listings of today whatever max_links is.
C27_TestModeCap ==
    (pc \notin {"import", "setup", "fetch"} /\ todays_links # <<>>) =>
        /\ cfg.test_mode =>
              /\ Len(todays_links) = Min(cfg.max_links, Len(ListedToday))
              /\ todays_links = SubSeq(ListedToday, 1, Len(todays_links))
              /\ CountOp("process_url") <= cfg.max_links
              /\ Len(results) <= cfg.max_links
        /\ ~cfg.test_mode => todays_links = ListedToday
        /\ CountOp("process_url") <= Len(todays_links)

\* a run in test mode has returned: two listings of today were listed and
\* only the first of them has been processed
C27_Witness ==
    /\ pc = "done"
    /\ cfg.test_mode
    /\ Len(ListedToday) > cfg.max_links
    /\ Len(results) = cfg.max_links
    /\ results[1].row_number = ListedToday[1].row
    /\ CountOp("process_url") = cfg.max_links

\* ------------------------------------------------------------------------
\* C28: the strategies that find the result items
\* ------------------------------------------------------------------------
\* strategy k is the first one that finds an item in the page
FirstNonEmpty(k, page) ==
    /\ StrategyItems(k, page) # <<>>
    /\ \A j \in 1..(k - 1) : StrategyItems(j, page) = <<>>

\* C28: the result items are exactly the items of the first of the
\* strategies 1..5, in this order, that finds any; the items of a later
\* strategy are used only when every earlier one found none, and the items
\* of two strategies are never put together. When no strategy finds an item
\* there are no result items.
C28_StrategyCascade ==
    (Called("result_items") /\ stage = 1) =>
        /\ \A k \in 1..5 : FirstNonEmpty(k, arg) => out = StrategyItems(k, arg)
        /\ (\A k \in 1..5 : StrategyItems(k, arg) = <<>>) => out = <<>>
        /\ \E k \in 1..5 : out = StrategyItems(k, arg)

\* the first element of the page is found by strategy 2 and by no earlier
\* one, the second by strategy 1: the items are those of strategy 1 alone
C28_Witness ==
    /\ Called("result_items")
    /\ stage = 1
    /\ StrategyItems(1, arg) = <<2>>
    /\ StrategyItems(2, arg) = <<1>>
    /\ out = <<2>>

\* ------------------------------------------------------------------------
\* C29: where the budget is checked
\* ------------------------------------------------------------------------
\* the budget is exhausted
Exhausted == clock > cfg.timeout_seconds

\* the step under way makes a call of op
Calls(op) ==
    /\ Len(calls') > Len(calls)
    /\ \E i \in (Len(calls) + 1)..Len(calls') : calls'[i].op = op

\* C29 as stated: with the budget exhausted the store is not set up, the
\* listings are not fetched and no listing is processed.
C29_CheckedAtThreePoints ==
    [][Exhausted => /\ ~Calls("setup_google_sheets")
                    /\ ~Calls("get_todays_outreach_links")
                    /\ ~Calls("process_url")]_vars

\* C29: the budget is checked after the store setup and before each
\* listing: with the budget exhausted the listings are not fetched and no
\* listing is processed, the run returning True after a setup that used the
\* budget up and leaving its loop at an exhausted check; the store setup
\* itself is made whatever the budget is.
C29_CheckedAtTwoPoints ==
    [][/\ Exhausted => /\ ~Calls("get_todays_outreach_links")
                       /\ ~Calls("process_url")
       /\ (pc = "setup" /\ pc' # pc) =>
             /\ Calls("setup_google_sheets")
             /\ (clock' > cfg.timeout_seconds) => pc' = "done"
       /\ (pc = "loop" /\ idx <= Len(todays_links) /\ Exhausted) =>
             pc' = "close"]_vars

\* a setup of six seconds used up the budget of five: the run has returned
\* True and the listings were never fetched
C29_Witness ==
    /\ pc = "done"
    /\ retval = "True"
    /\ cfg.timeout_seconds = 5
    /\ Exhausted
    /\ calls = <<Call("setup_google_sheets", 0)>>

\* ------------------------------------------------------------------------
\* C30: a listing without a channel button
\* ------------------------------------------------------------------------
\* C30: when the reply button has been clicked and the query for the
\* channel buttons finds none of email, call and text, no channel button is
\* activated, nothing is read from the clipboard or the markup (no email and
\* no phone come out of the extraction), and the listing is returned
\* with status no_contact.
C30_NoControlsIsNoContact ==
    (pc \in PUStates /\ cur.options = "empty") =>
        /\ cur.reply_clicked
        /\ cur.has = {}
        /\ cur.activated = <<>>
        /\ cur.email_env = NoEnv
        /\ cur.email = None
        /\ cur.phone = None
        /\ pc \in {"pu_write", "pu_return"}
        /\ (pc = "pu_return") => cur.status = "no_contact"

\* a listing whose reply button was clicked and that showed no channel
\* button has been returned with status no_contact
C30_Witness ==
    /\ pc = "pu_return"
    /\ cur.options = "empty"
    /\ cur.reply_clicked
    /\ cur.status = "no_contact"
    /\ cur.activated = <<>>

\* ------------------------------------------------------------------------
\* C31: the pacing delay
\* ------------------------------------------------------------------------
\* C31: every call of process_url but the first of the run comes right
\* after a pacing sleep, and starts PacingDelay seconds after the record of
\* the listing before it was appended, whatever the status of that record.
C31_PacingBetweenListings ==
    /\ \A j \in 2..Len(calls) :
          (calls[j].op = "process_url"
             /\ \E i \in 1..(j - 1) : calls[i].op = "process_url")
          => calls[j - 1].op = "sleep"
    /\ \A i \in 1..(Len(results) - 1) :
          results[i + 1].started
              = Advance(results[i].finished, PacingDelay)
    /\ (pc \in PUStates /\ results # <<>>) =>
          cur.started = Advance(results[Len(results)].finished, PacingDelay)

\* the first listing was skipped and the second one was started two seconds
\* after it
C31_Witness ==
    /\ Len(results) = 2
    /\ results[1].status = "skipped"
    /\ results[2].started = results[1].finished + PacingDelay
    /\ results[2].started < MaxClock
    /\ CountOp("sleep") = 1

\* ------------------------------------------------------------------------
\* C32: the proxy verification
\* ------------------------------------------------------------------------
\* the browser and the page were created without an exception
Launched == idx >= 1

\* the verification gave no success
Unverified == CountOp("proxy_warning") = 1

\* C32 as stated: with the proxy enabled there is exactly one verification,
\* right after the launch and before the first listing, and none without
\* it; after a verification without success the run has processed all the
\* listings selected when it returns.
C32_VerifiedOnceAllProcessed ==
    /\ Launched =>
          CountOp("test_proxy_connection") = IF proxy.enabled THEN 1 ELSE 0
    /\ \A i \in 1..Len(calls) :
          (calls[i].op = "test_proxy_connection") =>
              /\ i > 1 /\ calls[i - 1].op = "launch"
              /\ \A j \in 1..i : calls[j].op # "process_url"
    /\ (Unverified /\ pc = "done") => Len(results) = Len(todays_links)

\* C32: with PROXY_ENABLED true there is exactly one verification, right
\* after the launch and before the first listing, and none with
\* PROXY_ENABLED not true; a verification without success does not end the
\* run: the loop is entered, and when the run returns every selected listing
\* has been processed unless the loop was left at an exhausted budget check
\* (the time of the verification counts against the budget).
C32_VerifiedOnceNotAborted ==
    /\ Launched =>
          CountOp("test_proxy_connection") = IF proxy.enabled THEN 1 ELSE 0
    /\ ~Launched => CountOp("test_proxy_connection") = 0
    /\ \A i \in 1..Len(calls) :
          (calls[i].op = "test_proxy_connection") =>
              /\ i > 1 /\ calls[i - 1].op = "launch"
              /\ \A j \in 1..i : calls[j].op # "process_url"
    /\ Unverified => pc \in {"loop", "close", "summary", "done"} \cup PUStates
    /\ (Unverified /\ pc \in {"summary", "done"}) =>
          /\ browser = "closed"
          /\ timed_out \/ Len(results) = Len(todays_links)

\* a verification gave no success and the run has gone on to return with
\* its listing processed
C32_Witness ==
    /\ pc = "done"
    /\ proxy.enabled
    /\ Unverified
    /\ ~timed_out
    /\ Len(results) = 1
    /\ results[1].status = "success"


\* ------------------------------------------------------------------------
\* Target-day marking
\* ------------------------------------------------------------------------
\* the date that the date element of a result item shows
ShownDate(it) ==
    IF it.span = NoSpan THEN NoDate
    ELSE parse_craigslist_date(it.span).parsed_date

\* C33: whichever method produced it, a descriptor is marked target-day
\* exactly when the date of its result item is the current date, and its own
\* date field is then the current date; the visible text "today" in any
\* letter case is the current date.
C33_TargetDayIffParsedToday ==
    /\ dpc \in {"filter", "found", "failed"} =>
          \A k \in 1..Len(post_data) :
              /\ post_data[k].is_today
                    <=> ShownDate(items[post_data[k].item]) = Today
              /\ post_data[k].is_today <=> post_data[k].parsed_date = Today
    /\ \A s \in DateSpans :
          (~Truthy(s.title) /\ Lower(Strip(s.text)) = TodayWord)
              => parse_craigslist_date(s).parsed_date = Today


\* ------------------------------------------------------------------------
\* Rows left with the no-email marker
\* ------------------------------------------------------------------------
\* the run before left sheet row r with "No email found" in its email cell
Marked(r) == run > 1 /\ before[r].email = NoEmailFound

\* the write-back of record rec went through and the cells of its row hold
\* what this extraction found
Rewritten(rec) ==
    /\ rec.write = "ok"
    /\ sheet[rec.row_number].email =
          IF Truthy(rec.email) /\ validate_email(rec.email)
          THEN rec.email ELSE NoEmailFound
    /\ sheet[rec.row_number].phone =
          IF Truthy(rec.phone) /\ validate_phone(rec.phone)
          THEN format_phone(rec.phone) ELSE NoPhoneFound

\* C34 as stated: a row that the run before left with the no-email marker is
\* not skipped by a later run: it is navigated to and extracted from again
\* and both of its cells are rewritten.
C34_MarkedRowReprocessed ==
    /\ \A i \in 1..Len(results) :
          Marked(results[i].row_number) => results[i].status # "skipped"
    /\ (pc = "pu_return" /\ Marked(cur.row_number)) =>
          /\ cur.status # "skipped"
          /\ CountCalls("goto", cur.row_number) = 1
          /\ CountCalls("extract_contact_info_from_page", cur.row_number) = 1
          /\ Rewritten(cur)

\* C34 amended: a row that the run before left with the no-email marker is
\* never skipped by the dedup check of a later run that selects it: the
\* navigation is attempted; unless the navigation raises, the row is
\* extracted from again and the write-back is called; unless a write raises,
\* both cells are rewritten with what this extraction found, the phone cell
\* with "No phone found" when no phone was found this time.
C34_MarkedRowNotSkipped ==
    /\ \A i \in 1..Len(results) :
          Marked(results[i].row_number) => results[i].status # "skipped"
    /\ (pc = "pu_return" /\ Marked(cur.row_number)) =>
          /\ cur.status # "skipped"
          /\ CountCalls("check_if_contact_exists", cur.row_number) = 1
          /\ CountCalls("goto", cur.row_number) = 1
          /\ cur.status = "error" =>
                /\ CountCalls("extract_contact_info_from_page",
                              cur.row_number) = 0
                /\ sheet[cur.row_number] = before[cur.row_number]
          /\ cur.status # "error" =>
                /\ CountCalls("extract_contact_info_from_page",
                              cur.row_number) = 1
                /\ CountCalls("update_contact_in_sheet", cur.row_number) = 1
                /\ cur.write = "ok" => Rewritten(cur)

\* a later run has replaced the phone that the run before captured by the
\* no-phone marker
C34_Witness ==
    /\ pc = "pu_return"
    /\ Marked(cur.row_number)
    /\ before[cur.row_number].phone \notin {None, NoPhoneFound}
    /\ cur.status = "no_contact"
    /\ Rewritten(cur)
    /\ sheet[cur.row_number].phone = NoPhoneFound


\* ------------------------------------------------------------------------
\* Values of the output cells
\* ------------------------------------------------------------------------
\* C35: a write-back that went through leaves both output cells of its row
\* filled, and every filled email-output cell holds a string that passes
\* validate_email or "No email found", every filled phone-output cell a
\* string of the shape (XXX) XXX-XXXX or "No phone found".
C35_StoreValues ==
    /\ \A r \in SheetRows :
          /\ sheet[r].email # None =>
                \/ validate_email(sheet[r].email)
                \/ sheet[r].email = NoEmailFound
          /\ sheet[r].phone # None =>
                \/ PhoneShape(sheet[r].phone)
                \/ sheet[r].phone = NoPhoneFound
    /\ (pc = "pu_return" /\ cur.write = "ok") =>
          /\ sheet[cur.row_number].email # None
          /\ sheet[cur.row_number].phone # None
    /\ (pc = "pu_return" /\ cur.write = "phone_write_raises") =>
          sheet[cur.row_number].email # None

\* a phone that was copied in another writing has been stored in the shape
\* (XXX) XXX-XXXX, next to an email
C35_Witness ==
    /\ pc = "pu_return"
    /\ cur.write = "ok"
    /\ cur.phone # None
    /\ ~PhoneShape(cur.phone)
    /\ PhoneShape(sheet[cur.row_number].phone)
    /\ cur.email # None
    /\ sheet[cur.row_number].email = cur.email


\* ------------------------------------------------------------------------
\* Outcome accounting
\* ------------------------------------------------------------------------
\* C36: every record of the run has one of the four statuses, so the four
\* counts of the summary add up to the number of records; there are never
\* more records than selected listings; a skipped or error record carries no
\* email and no phone.
C36_OutcomeAccounting ==
    /\ \A i \in 1..Len(results) :
          /\ results[i].status \in {"success", "skipped", "no_contact", "error"}
          /\ results[i].status \in {"skipped", "error"} =>
                results[i].email = None /\ results[i].phone = None
    /\ StatusCount(results, "success") + StatusCount(results, "skipped")
       + StatusCount(results, "no_contact") + StatusCount(results, "error")
          = Len(results)
    /\ Len(results) <= Len(todays_links)

\* the summary is reached with a skipped record and a phone-only success
C36_Witness ==
    /\ pc = "done"
    /\ Len(results) = 2
    /\ StatusCount(results, "skipped") = 1
    /\ StatusCount(results, "success") = 1
    /\ \E i \in 1..2 : results[i].email = None /\ results[i].phone # None


\* ------------------------------------------------------------------------
\* A dedup read that raises
\* ------------------------------------------------------------------------
\* C37: when the read of the email-output cell raises, the dedup check
\* answers False: process_url does not return 'skipped' but goes on to the
\* navigation, whatever the row holds (the write-back that follows an
\* extraction can then replace an email the row held).
C37_FailedReadGoesOn ==
    [][(pc = "pu_dedup" /\ cur'.dedup_read = "raises")
         => (/\ pc' = "pu_goto"
             /\ cur'.status = "none"
             /\ sheet' = sheet
             /\ ~check_if_contact_exists(sheet, cur.row_number, TRUE))]_vars

\* a row in which the run before had left an email has been extracted from
\* again and its email cell now holds the no-email marker
C37_Witness ==
    /\ run > 1
    /\ pc = "pu_return"
    /\ cur.write = "ok"
    /\ Contains(before[cur.row_number].email, <<"@">>)
    /\ CountCalls("check_if_contact_exists", cur.row_number) = 1
    /\ CountCalls("extract_contact_info_from_page", cur.row_number) = 1
    /\ sheet[cur.row_number].email = NoEmailFound


\* ------------------------------------------------------------------------
\* The scan of the date column
\* ------------------------------------------------------------------------
\* the first sheet row below the header whose date cell is empty, or the row
\* after the last one
FirstEmptyDate(ws) ==
    LET empty == {r \in 2..Len(ws) : ~Truthy(ws[r].date)}
    IN IF empty = {} THEN Len(ws) + 1
       ELSE CHOOSE r \in empty : \A q \in empty : r <= q

\* the rows the scan is to return
RowsOfToday(ws) ==
    {r \in 2..(FirstEmptyDate(ws) - 1) :
        Strip(ws[r].date) = TodayStr /\ Truthy(ws[r].url)}

\* C38: get_todays_outreach_links returns, in ascending row order and with
\* their sheet row numbers, exactly the rows below the header and above the
\* first empty date cell whose date cell (white space around it apart) is
\* today's mm/dd string and whose link cell is not empty; no row below the
\* first empty date cell is returned; when the read raises the result is
\* the empty list.
C38_ScanStopsAtEmptyDate ==
    Called("get_todays_outreach_links") =>
        IF arg.raises THEN out = <<>>
        ELSE /\ {out[k].row : k \in 1..Len(out)} = RowsOfToday(arg.ws)
             /\ \A k \in 1..(Len(out) - 1) : out[k].row < out[k + 1].row
             /\ \A k \in 1..Len(out) :
                   /\ out[k].row > 1
                   /\ out[k].row < FirstEmptyDate(arg.ws)
                   /\ out[k].url = Strip(arg.ws[out[k].row].url)
                   /\ out[k].date = TodayStr

\* rows 2 and 4 are of today with a link and the date cell of row 3 is
\* empty: only row 2 is returned
C38_Witness ==
    /\ Called("get_todays_outreach_links")
    /\ ~arg.raises
    /\ arg.ws[2].date = TodayStr
    /\ arg.ws[3].date = None
    /\ arg.ws[4].date = TodayStr
    /\ Truthy(arg.ws[4].url)
    /\ Len(out) = 1
    /\ out[1].row = 2


\* ------------------------------------------------------------------------
\* Duplicates on the discovery side
\* ------------------------------------------------------------------------
\* the rows that runs of run_scraper appended
AppendedRows == (scrape.base + 1)..Len(sheet)

\* the link is in column 11 of the worksheet
InLinkColumn(url) == \E r \in 1..Len(sheet) : sheet[r].url = url

\* C39: a posting whose link is already in the outreach-link column is,
\* when the read of the column succeeds, counted as skipped with no row
\* appended; as long as no duplicate read has raised, no appended row has
\* the link of another row of the worksheet, also when a link comes twice
\* in the postings of one run.
C39_NoDuplicateAppended ==
    /\ [](scrape.reads_ok =>
            \A r \in AppendedRows : \A q \in 1..Len(sheet) :
                q # r => sheet[q].url # sheet[r].url)
    /\ [][(/\ dpc = "check"
           /\ scrape'.reads_ok
           /\ InLinkColumn(today_postings[scrape.i].url))
            => (/\ sheet' = sheet
                /\ scrape'.skipped_count = scrape.skipped_count + 1
                /\ scrape'.entries_added = scrape.entries_added
                /\ scrape'.i = scrape.i + 1)]_vars

\* one run found the same link twice: the first was appended, the second
\* skipped
C39_Witness ==
    /\ dpc = "report"
    /\ scrape.reads_ok
    /\ Len(today_postings) = 2
    /\ today_postings[1].url = today_postings[2].url
    /\ scrape.entries_added = 1
    /\ scrape.skipped_count = 1
    /\ Len(sheet) = scrape.base + 1
    /\ sheet[Len(sheet)].url = today_postings[1].url


====
